---- MODULE Spec2Model ----
(***************************************************************************)
(* Model of the echo-server (github.com/ullbergm/echo-server):             *)
(* services.BodyService, services.JWTService, services.TLSService, the     *)
(* start of the process in main, and the echo handlers.                    *)
(*                                                                         *)
(* Go strings and []byte are modelled alike, as sequences of byte values   *)
(* 0..255; string literals of the source are written as such sequences     *)
(* with the text in a comment.                                             *)
(***************************************************************************)
EXTENDS Integers, Sequences, FiniteSets, TLC

VARIABLES
    bodyBytes,      \* ParseBody argument: the raw request body
    contentType,    \* ParseBody argument: the Content-Type header value
    maxBodySize,    \* BodyService.maxBodySize
    bodyInfo,       \* ParseBody result: *models.BodyInfo, Nil, or Panic
    bodyPc,         \* "call" before ParseBody ran, "done" after, "idle" when unused
    headers,        \* ExtractAndDecodeJWTs argument: map[string]string
    headerNames,    \* JWTService.headerNames
    jwtInfoMap,     \* ExtractAndDecodeJWTs result: map[string]models.JwtInfo
    jwtPc,          \* "call" before ExtractAndDecodeJWTs ran, "done" after, "idle" when unused
    files,          \* contents of the files at certFile and keyFile, Nil for an absent file
    hostname,       \* what os.Hostname returns in this process
    clock,          \* time.Now, in seconds
    tlsService,     \* TLSService: certPEM and keyPEM
    tlsResults,     \* results of the GetOrGenerateCertificate calls so far, in order
    generations,    \* certificates made by x509.CreateCertificate so far, in order
    tlsEnabled,     \* TLS_ENABLED as main reads it
    mainPc,         \* position of main / startDualStackServers
    httpPc,         \* position of the goroutine running app.Listen
    httpsPc,        \* position of the goroutine running tls.Listen and app.Listener
    certEnv,        \* the _TLS_CERT_* environment variables, Nil while unset
    served,         \* requests served so far
    request,        \* the request an echo handler is called with
    response,       \* what the handler answers, Nil before
    echoPc,         \* "call" before the handler ran, "done" after, "idle" when unused
    delayEnv,       \* the value of HEALTH_READINESS_DELAY_SECONDS, "" when not set
    delaySeconds,   \* the delaySeconds of main, an int of 64 bits
    uptime,         \* the time since startTime, in seconds and nanoseconds
    readiness       \* the last answer of the readiness probe, Nil before

bodyVars == <<bodyBytes, contentType, maxBodySize, bodyInfo, bodyPc>>
jwtVars == <<headers, headerNames, jwtInfoMap, jwtPc>>
tlsVars == <<files, hostname, clock, tlsService, tlsResults, generations>>
mainVars == <<tlsEnabled, mainPc, httpPc, httpsPc, certEnv, served>>
echoVars == <<request, response, echoPc>>
readyVars == <<delayEnv, delaySeconds, uptime, readiness>>
vars == <<bodyBytes, contentType, maxBodySize, bodyInfo, bodyPc,
          headers, headerNames, jwtInfoMap, jwtPc,
          files, hostname, clock, tlsService, tlsResults, generations,
          tlsEnabled, mainPc, httpPc, httpsPc, certEnv, served,
          request, response, echoPc,
          delayEnv, delaySeconds, uptime, readiness>>

(***************************************************************************)
(* Bounds of the model.                                                    *)
(***************************************************************************)
MaxBinLen == 3
MaxRatioLen == 10
MaxCap == 3
MaxSegments == 4
MaxHeaders == 2

(***************************************************************************)
(* Values                                                                  *)
(***************************************************************************)
\* a nil pointer / nil map
Nil == [t |-> "nil"]
\* a run-time panic (slice bounds out of range)
Panic == [t |-> "panic"]
\* a Go string held in an interface{}
Str(b) == [t |-> "string", v |-> b]

Byte == 0..255

RECURSIVE SeqsUpTo(_, _)
\* all sequences over alphabet A of length 0..n
SeqsUpTo(A, n) ==
    IF n = 0 THEN {<<>>}
    ELSE LET S == SeqsUpTo(A, n - 1)
         IN  S \cup {Append(s, a) : s \in {x \in S : Len(x) = n - 1}, a \in A}

\* s[i:] of Go (i is 0-based)
From(s, i) == SubSeq(s, i + 1, Len(s))
\* s[:i] of Go; slicing beyond the length panics
Slice(s, i) ==
    IF i <= Len(s) THEN [panic |-> FALSE, v |-> SubSeq(s, 1, i)]
    ELSE [panic |-> TRUE, v |-> <<>>]

HasPrefix(s, p) == Len(s) >= Len(p) /\ SubSeq(s, 1, Len(p)) = p

ToLowerByte(c) == IF c >= 65 /\ c <= 90 THEN c + 32 ELSE c
ToLower(s) == [i \in 1..Len(s) |-> ToLowerByte(s[i])]

\* index (1-based) of the first occurrence of byte c in s, 0 if none
IndexByte(s, c) ==
    IF \E i \in 1..Len(s) : s[i] = c
    THEN CHOOSE i \in 1..Len(s) : s[i] = c /\ \A j \in 1..(i - 1) : s[j] # c
    ELSE 0

(***************************************************************************)
(* unicode/utf8.Valid, as called by isBinaryData and ParseBody.            *)
(***************************************************************************)
\* number of bytes of the encoding that starts with byte b, 0 if b cannot
\* start one
utf8Width(b) ==
    IF b < 128 THEN 1
    ELSE IF b >= 194 /\ b <= 223 THEN 2
    ELSE IF b >= 224 /\ b <= 239 THEN 3
    ELSE IF b >= 240 /\ b <= 244 THEN 4
    ELSE 0

\* accepted range of the second byte after lead byte b
utf8SecondLo(b) == IF b = 224 THEN 160 ELSE IF b = 240 THEN 144 ELSE 128
utf8SecondHi(b) == IF b = 237 THEN 159 ELSE IF b = 244 THEN 143 ELSE 191

RECURSIVE utf8ValidFrom(_, _)
utf8ValidFrom(p, i) ==
    IF i > Len(p) THEN TRUE
    ELSE LET b == p[i]
             w == utf8Width(b)
         IN  IF w = 0 THEN FALSE
             ELSE IF w = 1 THEN utf8ValidFrom(p, i + 1)
             ELSE IF i + w - 1 > Len(p) THEN FALSE
             ELSE /\ p[i + 1] >= utf8SecondLo(b)
                  /\ p[i + 1] <= utf8SecondHi(b)
                  /\ \A k \in (i + 2)..(i + w - 1) : p[k] >= 128 /\ p[k] <= 191
                  /\ utf8ValidFrom(p, i + w)

utf8Valid(p) == utf8ValidFrom(p, 1)

(***************************************************************************)
(* encoding/base64.StdEncoding.EncodeToString                              *)
(***************************************************************************)
\* the character of the standard alphabet for the 6-bit value v
base64Char(v) ==
    IF v < 26 THEN 65 + v
    ELSE IF v < 52 THEN 97 + (v - 26)
    ELSE IF v < 62 THEN 48 + (v - 52)
    ELSE IF v = 62 THEN 43
    ELSE 47

RECURSIVE base64EncodeFrom(_, _)
base64EncodeFrom(src, i) ==
    LET n == Len(src) - i + 1
    IN  IF n <= 0 THEN <<>>
        ELSE IF n = 1 THEN
            LET val == src[i] * 65536
            IN  <<base64Char(val \div 262144), base64Char((val \div 4096) % 64), 61, 61>>
        ELSE IF n = 2 THEN
            LET val == src[i] * 65536 + src[i + 1] * 256
            IN  <<base64Char(val \div 262144), base64Char((val \div 4096) % 64),
                  base64Char((val \div 64) % 64), 61>>
        ELSE
            LET val == src[i] * 65536 + src[i + 1] * 256 + src[i + 2]
            IN  <<base64Char(val \div 262144), base64Char((val \div 4096) % 64),
                  base64Char((val \div 64) % 64), base64Char(val % 64)>>
                \o base64EncodeFrom(src, i + 3)

EncodeToString(src) == base64EncodeFrom(src, 1)

(***************************************************************************)
(* BodyService: binary detection                                           *)
(***************************************************************************)
\* binaryThreshold = 0.3, held as the fraction binaryThresholdNum/binaryThresholdDen
binaryThresholdNum == 3
binaryThresholdDen == 10
minPrintableChar == 32
charNewline == 10
charCarriageReturn == 13
charTab == 9

RECURSIVE countNonPrintable(_, _)
\* the loop of isBinaryData over data[i..]
countNonPrintable(data, i) ==
    IF i > Len(data) THEN 0
    ELSE (IF /\ data[i] < minPrintableChar
             /\ data[i] # charNewline
             /\ data[i] # charCarriageReturn
             /\ data[i] # charTab
          THEN 1 ELSE 0) + countNonPrintable(data, i + 1)

\* float64(nonPrintable)/float64(len(data)) > binaryThreshold.  For the
\* lengths of the model the float64 quotient compares with 0.3 as the exact
\* fraction does; 0/0 is NaN, and NaN > 0.3 is false.
ratioAboveThreshold(nonPrintable, length) ==
    length > 0 /\ nonPrintable * binaryThresholdDen > binaryThresholdNum * length

isBinaryDataOffByEqual(data) ==
    IF IndexByte(data, 0) # 0 THEN TRUE
    ELSE IF ~utf8Valid(data) THEN TRUE
    ELSE LET n == countNonPrintable(data, 1)
         IN  Len(data) > 0 /\ n * binaryThresholdDen >= binaryThresholdNum * Len(data)

isBinaryData(data) ==
    IF IndexByte(data, 0) # 0 THEN TRUE
    ELSE IF ~utf8Valid(data) THEN TRUE
    ELSE ratioAboveThreshold(countNonPrintable(data, 1), Len(data))

(***************************************************************************)
(* encoding/json.Unmarshal, as called by parseJSON and decodeBase64URL.    *)
(* JSON values: null, bool, number (its literal), string (its bytes),      *)
(* array (a sequence), object (a function from key bytes to values; of a   *)
(* repeated key the last value stays).  A \u escape is decoded for the     *)
(* basic plane; a surrogate half becomes U+FFFD.                           *)
(***************************************************************************)
JNull == [t |-> "null"]
JBool(b) == [t |-> "bool", v |-> b]
JNumber(lit) == [t |-> "number", v |-> lit]
JArray(elems) == [t |-> "array", v |-> elems]
JObject(members) == [t |-> "object", v |-> members]

\* a parse failure, and a parse result v with the next index to read
jsonFail == [ok |-> FALSE]
jsonOk(v, i) == [ok |-> TRUE, v |-> v, i |-> i]

\* the byte at index i, or -1 at the end of input
At(s, i) == IF i >= 1 /\ i <= Len(s) THEN s[i] ELSE -1

isJsonSpace(c) == c = 32 \/ c = 9 \/ c = 13 \/ c = 10
isDigit(c) == c >= 48 /\ c <= 57
isHex(c) == isDigit(c) \/ (c >= 97 /\ c <= 102) \/ (c >= 65 /\ c <= 70)
hexVal(c) == IF isDigit(c) THEN c - 48 ELSE IF c >= 97 THEN c - 87 ELSE c - 55

RECURSIVE skipJsonSpace(_, _)
skipJsonSpace(s, i) ==
    IF isJsonSpace(At(s, i)) THEN skipJsonSpace(s, i + 1) ELSE i

RECURSIVE skipDigits(_, _)
skipDigits(s, i) == IF isDigit(At(s, i)) THEN skipDigits(s, i + 1) ELSE i

\* the number scanners take the index reached so far, 0 after a failure
\* digits, at least one, from index j on
scanDigits(s, j) == IF j # 0 /\ isDigit(At(s, j)) THEN skipDigits(s, j + 1) ELSE 0
\* the integer part: 0 alone, or digits that do not start with 0
scanInt(s, j) == IF At(s, j) = 48 THEN j + 1 ELSE scanDigits(s, j)
\* an optional fraction
scanFrac(s, j) == IF j # 0 /\ At(s, j) = 46 THEN scanDigits(s, j + 1) ELSE j
\* after e or E: an optional sign, then digits
scanExpDigits(s, j) == scanDigits(s, IF At(s, j) = 43 \/ At(s, j) = 45 THEN j + 1 ELSE j)
\* an optional exponent
scanExp(s, j) ==
    IF j # 0 /\ (At(s, j) = 101 \/ At(s, j) = 69) THEN scanExpDigits(s, j + 1) ELSE j

\* the index after the number literal that starts at i, 0 if there is none
scanNumber(s, i) == scanExp(s, scanFrac(s, scanInt(s, IF At(s, i) = 45 THEN i + 1 ELSE i)))

\* UTF-8 encoding of code point cp of the basic plane
encodeRune(cp) ==
    IF cp >= 55296 /\ cp <= 57343 THEN <<239, 191, 189>>
    ELSE IF cp < 128 THEN <<cp>>
    ELSE IF cp < 2048 THEN <<192 + (cp \div 64), 128 + (cp % 64)>>
    ELSE <<224 + (cp \div 4096), 128 + ((cp \div 64) % 64), 128 + (cp % 64)>>

\* the byte a one-letter escape stands for, -1 if the letter is no escape
escapeByte(c) ==
    IF c = 34 \/ c = 92 \/ c = 47 THEN c
    ELSE IF c = 98 THEN 8
    ELSE IF c = 102 THEN 12
    ELSE IF c = 110 THEN 10
    ELSE IF c = 114 THEN 13
    ELSE IF c = 116 THEN 9
    ELSE -1

RECURSIVE scanStringBody(_, _, _)
\* the string whose opening quote has been read; acc holds the bytes so far
scanStringBody(s, i, acc) ==
    LET c == At(s, i)
    IN  IF c = -1 THEN jsonFail
        ELSE IF c = 34 THEN jsonOk(acc, i + 1)
        ELSE IF c = 92 THEN
            LET e == At(s, i + 1)
            IN  IF e = 117 THEN
                    IF \A k \in (i + 2)..(i + 5) : isHex(At(s, k))
                    THEN scanStringBody(s, i + 6,
                            acc \o encodeRune(hexVal(s[i + 2]) * 4096 + hexVal(s[i + 3]) * 256
                                              + hexVal(s[i + 4]) * 16 + hexVal(s[i + 5])))
                    ELSE jsonFail
                ELSE IF escapeByte(e) # -1
                     THEN scanStringBody(s, i + 2, Append(acc, escapeByte(e)))
                     ELSE jsonFail
        ELSE IF c < 32 THEN jsonFail
        ELSE scanStringBody(s, i + 1, Append(acc, c))

\* the literal lit at index i
scanLiteral(s, i, lit, v) ==
    IF i + Len(lit) - 1 <= Len(s) /\ SubSeq(s, i, i + Len(lit) - 1) = lit
    THEN jsonOk(v, i + Len(lit))
    ELSE jsonFail

\* strconv.ParseFloat(lit, 64), as far as json.Unmarshal depends on it: a
\* number literal beyond the range of a float64 makes Unmarshal fail.  The
\* decimal digits of 2^1024 - 2^970, the least value that rounds to infinity:
maxFloat64Bound ==
    <<1, 7, 9, 7, 6, 9, 3, 1, 3, 4, 8, 6, 2, 3, 1, 5, 8, 0, 7, 9, 3, 7, 2, 8,
      9, 7, 1, 4, 0, 5, 3, 0, 3, 4, 1, 5, 0, 7, 9, 9, 3, 4, 1, 3, 2, 7, 1, 0,
      0, 3, 7, 8, 2, 6, 9, 3, 6, 1, 7, 3, 7, 7, 8, 9, 8, 0, 4, 4, 4, 9, 6, 8,
      2, 9, 2, 7, 6, 4, 7, 5, 0, 9, 4, 6, 6, 4, 9, 0, 1, 7, 9, 7, 7, 5, 8, 7,
      2, 0, 7, 0, 9, 6, 3, 3, 0, 2, 8, 6, 4, 1, 6, 6, 9, 2, 8, 8, 7, 9, 1, 0,
      9, 4, 6, 5, 5, 5, 5, 4, 7, 8, 5, 1, 9, 4, 0, 4, 0, 2, 6, 3, 0, 6, 5, 7,
      4, 8, 8, 6, 7, 1, 5, 0, 5, 8, 2, 0, 6, 8, 1, 9, 0, 8, 9, 0, 2, 0, 0, 0,
      7, 0, 8, 3, 8, 3, 6, 7, 6, 2, 7, 3, 8, 5, 4, 8, 4, 5, 8, 1, 7, 7, 1, 1,
      5, 3, 1, 7, 6, 4, 4, 7, 5, 7, 3, 0, 2, 7, 0, 0, 6, 9, 8, 5, 5, 5, 7, 1,
      3, 6, 6, 9, 5, 9, 6, 2, 2, 8, 4, 2, 9, 1, 4, 8, 1, 9, 8, 6, 0, 8, 3, 4,
      9, 3, 6, 4, 7, 5, 2, 9, 2, 7, 1, 9, 0, 7, 4, 1, 6, 8, 4, 4, 4, 3, 6, 5,
      5, 1, 0, 7, 0, 4, 3, 4, 2, 7, 1, 1, 5, 5, 9, 6, 9, 9, 5, 0, 8, 0, 9, 3,
      0, 4, 2, 8, 8, 0, 1, 7, 7, 9, 0, 4, 1, 7, 4, 4, 9, 7, 7, 9, 2>>

\* the digits of the literal s from index i up to the first non-digit
RECURSIVE digitsFrom(_, _)
digitsFrom(s, i) ==
    IF i <= Len(s) /\ isDigit(s[i]) THEN <<s[i] - 48>> \o digitsFrom(s, i + 1) ELSE <<>>

\* the index of the first non-zero digit of ds from index k on, 0 if none
RECURSIVE firstNonZero(_, _)
firstNonZero(ds, k) ==
    IF k > Len(ds) THEN 0 ELSE IF ds[k] # 0 THEN k ELSE firstNonZero(ds, k + 1)

\* the value of the digits ds after the digits that gave acc
RECURSIVE digitsValue(_, _, _)
digitsValue(ds, k, acc) == IF k > Len(ds) THEN acc ELSE digitsValue(ds, k + 1, acc * 10 + ds[k])

\* the number of digits of an exponent above which every non-zero number is
\* out of range, whatever its other digits, bodies being far shorter than
\* 10^8 bytes
hugeExponentDigits == 8

\* the exponent digits ds with their sign as a number, cut off at +-10^8
signedExponent(ds, negative, nz) ==
    IF nz = 0 THEN 0
    ELSE IF Len(ds) - nz + 1 > hugeExponentDigits
    THEN (IF negative THEN -100000000 ELSE 100000000)
    ELSE IF negative THEN 0 - digitsValue(ds, nz, 0) ELSE digitsValue(ds, nz, 0)

\* the exponent part of the literal s, e being the index of its e or E (past
\* the end when there is none)
exponentAfter(s, e) ==
    IF e > Len(s) THEN 0
    ELSE IF At(s, e + 1) = 45
    THEN signedExponent(digitsFrom(s, e + 2), TRUE, firstNonZero(digitsFrom(s, e + 2), 1))
    ELSE IF At(s, e + 1) = 43
    THEN signedExponent(digitsFrom(s, e + 2), FALSE, firstNonZero(digitsFrom(s, e + 2), 1))
    ELSE signedExponent(digitsFrom(s, e + 1), FALSE, firstNonZero(digitsFrom(s, e + 1), 1))

\* the digits ds from index k on, read as d.ddd, are at least the digits of
\* maxFloat64Bound from index i on
RECURSIVE atLeastBound(_, _, _)
atLeastBound(ds, k, i) ==
    IF i > Len(maxFloat64Bound) THEN TRUE
    ELSE IF (IF k <= Len(ds) THEN ds[k] ELSE 0) > maxFloat64Bound[i] THEN TRUE
    ELSE IF (IF k <= Len(ds) THEN ds[k] ELSE 0) < maxFloat64Bound[i] THEN FALSE
    ELSE atLeastBound(ds, k + 1, i + 1)

\* the number with the digits ds, the first non-zero one at index nz, and the
\* decimal exponent e10 of that digit is out of range
outOfRange(ds, nz, e10) ==
    IF nz = 0 THEN FALSE
    ELSE IF e10 > Len(maxFloat64Bound) - 1 THEN TRUE
    ELSE IF e10 < Len(maxFloat64Bound) - 1 THEN FALSE
    ELSE atLeastBound(ds, nz, 1)

\* the literal s without its sign: the digits int before and frac after the
\* point
floatOverflowsParts(s, int, frac) ==
    outOfRange(int \o frac, firstNonZero(int \o frac, 1),
               Len(int) - firstNonZero(int \o frac, 1)
               + exponentAfter(s, Len(int) + (IF frac = <<>> THEN 0 ELSE Len(frac) + 1) + 1))

\* the literal s without its sign
floatOverflowsUnsigned(s) ==
    floatOverflowsParts(s, digitsFrom(s, 1),
                        IF At(s, Len(digitsFrom(s, 1)) + 1) = 46
                        THEN digitsFrom(s, Len(digitsFrom(s, 1)) + 2) ELSE <<>>)

\* the number literal lit does not fit a float64
floatOverflows(lit) == floatOverflowsUnsigned(IF At(lit, 1) = 45 THEN Tail(lit) ELSE lit)

\* a scanned string as a JSON value
stringValue(r) == IF r.ok THEN jsonOk(Str(r.v), r.i) ELSE jsonFail
\* a scanned number, ending before index j, as a JSON value
numberValue(s, i, j) ==
    IF j = 0 THEN jsonFail
    ELSE IF floatOverflows(SubSeq(s, i, j - 1)) THEN jsonFail
    ELSE jsonOk(JNumber(SubSeq(s, i, j - 1)), j)

\* the scalar (string, literal or number) that starts at index i
scanScalar(s, i) ==
    IF At(s, i) = 34 THEN stringValue(scanStringBody(s, i + 1, <<>>))
    ELSE IF At(s, i) = 116 THEN scanLiteral(s, i, <<116, 114, 117, 101>>, JBool(TRUE))
    ELSE IF At(s, i) = 102 THEN scanLiteral(s, i, <<102, 97, 108, 115, 101>>, JBool(FALSE))
    ELSE IF At(s, i) = 110 THEN scanLiteral(s, i, <<110, 117, 108, 108>>, JNull)
    ELSE IF At(s, i) = 45 \/ isDigit(At(s, i)) THEN numberValue(s, i, scanNumber(s, i))
    ELSE jsonFail

\* the colon after the scanned key k, then the index of the value
scanColon(s, k, j) ==
    IF ~k.ok THEN jsonFail
    ELSE IF At(s, j) # 58 THEN jsonFail
    ELSE jsonOk(k.v, skipJsonSpace(s, j + 1))

\* the key k, scanned, and what follows it
scanAfterKey(s, k) == IF ~k.ok THEN jsonFail ELSE scanColon(s, k, skipJsonSpace(s, k.i))

\* the object key and colon at index i: the key and the index of the value
scanKey(s, i) ==
    IF At(s, i) # 34 THEN jsonFail ELSE scanAfterKey(s, scanStringBody(s, i + 1, <<>>))

\* a frame of the parse stack: an open array with its elements so far, or an
\* open object with its members so far and the key whose value is being read
arrayFrame(elems) == [array |-> TRUE, elems |-> elems, members |-> <<>>, key |-> <<>>]
objectFrame(members, key) == [array |-> FALSE, elems |-> <<>>, members |-> members, key |-> key]

Pop(stack) == SubSeq(stack, 1, Len(stack) - 1)

\* A state of the decoder: the index i into the input, the stack of open
\* arrays and objects, and either have = FALSE: a value starts at i (white
\* space skipped), or have = TRUE: the value v ended before i and is to be
\* added to the innermost open array or object, or is the result.
jsonState(i, stack, have, v) ==
    [i |-> i, stack |-> stack, have |-> have, v |-> v, done |-> FALSE, ok |-> TRUE]
jsonError == [i |-> 0, stack |-> <<>>, have |-> FALSE, v |-> JNull, done |-> TRUE, ok |-> FALSE]
jsonDone(v, i) == [i |-> i, stack |-> <<>>, have |-> TRUE, v |-> v, done |-> TRUE, ok |-> TRUE]

\* an object stays open with the members so far and the scanned key
jsonWithKey(stack, members, key) ==
    IF ~key.ok THEN jsonError
    ELSE jsonState(key.i, Append(stack, objectFrame(members, key.v)), FALSE, JNull)

\* after '{', white space skipped up to index open
jsonOpenObject(s, stack, open) ==
    IF At(s, open) = 125 THEN jsonState(open + 1, stack, TRUE, JObject(<<>>))
    ELSE jsonWithKey(stack, <<>>, scanKey(s, open))

\* after '[', white space skipped up to index open
jsonOpenArray(s, stack, open) ==
    IF At(s, open) = 93 THEN jsonState(open + 1, stack, TRUE, JArray(<<>>))
    ELSE jsonState(open, Append(stack, arrayFrame(<<>>)), FALSE, JNull)

jsonScalar(stack, sc) == IF ~sc.ok THEN jsonError ELSE jsonState(sc.i, stack, TRUE, sc.v)

\* a value starts at index i
jsonValueStart(s, i, stack) ==
    IF At(s, i) = 123 THEN jsonOpenObject(s, stack, skipJsonSpace(s, i + 1))
    ELSE IF At(s, i) = 91 THEN jsonOpenArray(s, stack, skipJsonSpace(s, i + 1))
    ELSE jsonScalar(stack, scanScalar(s, i))

\* the element v of the open array top ended; index j is past the white space
jsonAfterElement(s, j, rest, elems) ==
    IF At(s, j) = 44
    THEN jsonState(skipJsonSpace(s, j + 1), Append(rest, arrayFrame(elems)), FALSE, JNull)
    ELSE IF At(s, j) = 93 THEN jsonState(j + 1, rest, TRUE, JArray(elems))
    ELSE jsonError

\* a member of the open object ended, members holding it; index j is past the
\* white space
jsonAfterMember(s, j, rest, members) ==
    IF At(s, j) = 44 THEN jsonWithKey(rest, members, scanKey(s, skipJsonSpace(s, j + 1)))
    ELSE IF At(s, j) = 125 THEN jsonState(j + 1, rest, TRUE, JObject(members))
    ELSE jsonError

\* the value v ended; top is the innermost open array or object
jsonAfterValue(s, j, rest, top, v) ==
    IF top.array THEN jsonAfterElement(s, j, rest, Append(top.elems, v))
    ELSE jsonAfterMember(s, j, rest, (top.key :> v) @@ top.members)

\* one step of the decoder over the input s
jsonStep(s, st) ==
    IF ~st.have THEN jsonValueStart(s, st.i, st.stack)
    ELSE IF Len(st.stack) = 0 THEN jsonDone(st.v, st.i)
    ELSE jsonAfterValue(s, skipJsonSpace(s, st.i), Pop(st.stack), st.stack[Len(st.stack)], st.v)

RECURSIVE jsonRun(_, _)
jsonRun(s, st) == IF st.done THEN st ELSE jsonRun(s, jsonStep(s, st))

\* the JSON value that starts at index i (white space already skipped)
jsonResult(st) == IF st.ok THEN jsonOk(st.v, st.i) ELSE jsonFail
parseValue(s, i) == jsonResult(jsonRun(s, jsonState(i, <<>>, FALSE, JNull)))

\* json.Unmarshal(data, &v) for v of type interface{}: [ok |-> FALSE] is an error
\* nothing but white space may follow the top-level value r
checkEnd(data, r) ==
    IF r.ok /\ skipJsonSpace(data, r.i) > Len(data) THEN jsonOk(r.v, r.i) ELSE jsonFail

Unmarshal(data) == checkEnd(data, parseValue(data, skipJsonSpace(data, 1)))

\* json.Unmarshal(data, &m) for m of type map[string]interface{}: an object
\* fills the map, null leaves it nil without an error, any other value is an
\* UnmarshalTypeError
intoMap(r) ==
    IF ~r.ok THEN [ok |-> FALSE]
    ELSE IF r.v.t = "object" THEN [ok |-> TRUE, v |-> r.v]
    ELSE IF r.v.t = "null" THEN [ok |-> TRUE, v |-> Nil]
    ELSE [ok |-> FALSE]

UnmarshalMap(data) == intoMap(Unmarshal(data))

(***************************************************************************)
(* mime.ParseMediaType, as called by ParseBody (and for a part's           *)
(* Content-Disposition).  Parameter continuations (name*0=) are not        *)
(* modelled.  The nil map returned with an error is the empty map: Go      *)
(* reads both alike.                                                       *)
(***************************************************************************)
\* unicode.IsSpace on ASCII
isSpace(c) == c = 32 \/ (c >= 9 /\ c <= 13)
\* ( ) < > @ , ; : \ " / [ ] ? =
isTSpecial(c) == c \in {40, 41, 60, 62, 64, 44, 59, 58, 92, 34, 47, 91, 93, 63, 61}
isTokenChar(c) == c > 32 /\ c < 127 /\ ~isTSpecial(c)

RECURSIVE TrimLeft(_)
TrimLeft(s) == IF Len(s) > 0 /\ isSpace(s[1]) THEN TrimLeft(Tail(s)) ELSE s
RECURSIVE TrimRight(_)
TrimRight(s) ==
    IF Len(s) > 0 /\ isSpace(s[Len(s)]) THEN TrimRight(SubSeq(s, 1, Len(s) - 1)) ELSE s
\* strings.TrimSpace on ASCII
TrimSpace(s) == TrimRight(TrimLeft(s))

RECURSIVE tokenEnd(_, _)
\* the number of leading token characters of s[i..]
tokenEnd(s, i) == IF i <= Len(s) /\ isTokenChar(s[i]) THEN 1 + tokenEnd(s, i + 1) ELSE 0

\* consumeToken: the longest leading token and the rest
consumeToken(v) ==
    LET n == tokenEnd(v, 1)
    IN  [token |-> SubSeq(v, 1, n), rest |-> From(v, n)]

RECURSIVE consumeQuoted(_, _, _)
\* the quoted-string loop of consumeValue from index i (1-based), buffer acc
consumeQuoted(v, i, acc) ==
    IF i > Len(v) THEN [value |-> <<>>, rest |-> v]
    ELSE IF v[i] = 34 THEN [value |-> acc, rest |-> From(v, i)]
    ELSE IF v[i] = 92 /\ i + 1 <= Len(v) /\ isTSpecial(v[i + 1])
         THEN consumeQuoted(v, i + 2, Append(acc, v[i + 1]))
    ELSE IF v[i] = 13 \/ v[i] = 10 THEN [value |-> <<>>, rest |-> v]
    ELSE consumeQuoted(v, i + 1, Append(acc, v[i]))

consumeValue(v) ==
    IF Len(v) = 0 THEN [value |-> <<>>, rest |-> v]
    ELSE IF v[1] # 34
         THEN [value |-> consumeToken(v).token, rest |-> consumeToken(v).rest]
         ELSE consumeQuoted(v, 2, <<>>)

\* consumeMediaParam: an empty param means "no parameter here"
consumeMediaParam(v) ==
    LET none == [param |-> <<>>, value |-> <<>>, rest |-> v]
        r1 == TrimLeft(v)
    IN  IF ~HasPrefix(r1, <<59>>) THEN none
        ELSE LET t == consumeToken(TrimLeft(Tail(r1)))
                 r2 == TrimLeft(t.rest)
             IN  IF t.token = <<>> THEN none
                 ELSE IF ~HasPrefix(r2, <<61>>) THEN none
                 ELSE LET r3 == TrimLeft(Tail(r2))
                          val == consumeValue(r3)
                      IN  IF val.value = <<>> /\ val.rest = r3 THEN none
                          ELSE [param |-> ToLower(t.token), value |-> val.value,
                                rest |-> val.rest]

\* checkMediaTypeDisposition: TRUE when s is "token" or "token/token"
checkMediaTypeDisposition(s) ==
    LET t == consumeToken(s)
    IN  IF t.token = <<>> THEN FALSE
        ELSE IF t.rest = <<>> THEN TRUE
        ELSE IF ~HasPrefix(t.rest, <<47>>) THEN FALSE
        ELSE LET u == consumeToken(Tail(t.rest))
             IN  u.token # <<>> /\ u.rest = <<>>

RECURSIVE parseMediaParams(_, _, _)
\* the parameter loop of ParseMediaType
parseMediaParams(mediatype, v, params) ==
    LET w == TrimLeft(v)
    IN  IF Len(w) = 0 THEN [err |-> FALSE, mediatype |-> mediatype, params |-> params]
        ELSE LET p == consumeMediaParam(w)
             IN  IF p.param = <<>> THEN
                     IF TrimSpace(p.rest) = <<59>>
                     THEN [err |-> FALSE, mediatype |-> mediatype, params |-> params]
                     ELSE [err |-> TRUE, mediatype |-> mediatype, params |-> <<>>]
                 ELSE IF p.param \in DOMAIN params /\ params[p.param] # p.value
                     THEN [err |-> TRUE, mediatype |-> <<>>, params |-> <<>>]
                 ELSE parseMediaParams(mediatype, p.rest, (p.param :> p.value) @@ params)

ParseMediaType(v) ==
    LET semi == IndexByte(v, 59)
        base == IF semi = 0 THEN v ELSE SubSeq(v, 1, semi - 1)
        mediatype == TrimSpace(ToLower(base))
    IN  IF ~checkMediaTypeDisposition(mediatype)
        THEN [err |-> TRUE, mediatype |-> <<>>, params |-> <<>>]
        ELSE parseMediaParams(mediatype, From(v, Len(base)), <<>>)

(***************************************************************************)
(* net/url.ParseQuery, as called by parseFormURLEncoded.                   *)
(***************************************************************************)
\* strings.Cut(s, sep) for a one-byte separator
Cut(s, c) ==
    LET i == IndexByte(s, c)
    IN  IF i = 0 THEN [before |-> s, after |-> <<>>, found |-> FALSE]
        ELSE [before |-> SubSeq(s, 1, i - 1), after |-> From(s, i), found |-> TRUE]

RECURSIVE escapesValid(_, _)
\* the first pass of url.QueryUnescape: every % is followed by two hex digits
escapesValid(s, i) ==
    IF i > Len(s) THEN TRUE
    ELSE IF s[i] = 37
         THEN /\ i + 2 <= Len(s)
              /\ isHex(s[i + 1])
              /\ isHex(s[i + 2])
              /\ escapesValid(s, i + 3)
         ELSE escapesValid(s, i + 1)

RECURSIVE unescapeFrom(_, _)
\* the second pass: %XX becomes the byte, + becomes a space
unescapeFrom(s, i) ==
    IF i > Len(s) THEN <<>>
    ELSE IF s[i] = 37
         THEN <<hexVal(s[i + 1]) * 16 + hexVal(s[i + 2])>> \o unescapeFrom(s, i + 3)
    ELSE IF s[i] = 43 THEN <<32>> \o unescapeFrom(s, i + 1)
    ELSE <<s[i]>> \o unescapeFrom(s, i + 1)

QueryUnescape(s) ==
    IF escapesValid(s, 1) THEN [err |-> FALSE, v |-> unescapeFrom(s, 1)]
    ELSE [err |-> TRUE, v |-> <<>>]

RECURSIVE parseQuery(_, _, _)
\* the loop of url.parseQuery: m maps a key to the sequence of its values,
\* err is the error kept so far
parseQuery(m, query, err) ==
    IF query = <<>> THEN [err |-> err, values |-> m]
    ELSE LET c == Cut(query, 38)
             kv == Cut(c.before, 61)
             key == QueryUnescape(kv.before)
             value == QueryUnescape(kv.after)
         IN  IF IndexByte(c.before, 59) # 0 THEN parseQuery(m, c.after, TRUE)
             ELSE IF c.before = <<>> THEN parseQuery(m, c.after, err)
             ELSE IF key.err \/ value.err THEN parseQuery(m, c.after, TRUE)
             ELSE parseQuery(
                    (key.v :> (IF key.v \in DOMAIN m THEN Append(m[key.v], value.v)
                               ELSE <<value.v>>)) @@ m,
                    c.after, err)

ParseQuery(query) == parseQuery(<<>>, query, FALSE)

(***************************************************************************)
(* BodyService: the parsers of ParseBody                                   *)
(***************************************************************************)
\* an int and a []string held in an interface{}
GoInt(n) == [t |-> "int", v |-> n]
Strings(ss) == [t |-> "strings", v |-> ss]

\* the decoded value r, or the raw string when decoding failed
valueOrString(data, r) == IF ~r.ok THEN Str(data) ELSE r.v

parseJSON(data) == valueOrString(data, Unmarshal(data))

parseXML(data) == Str(data)

parseFormURLEncoded(data) ==
    LET r == ParseQuery(data)
    IN  IF r.err THEN Str(data)
        ELSE JObject([key \in DOMAIN r.values |->
                        IF Len(r.values[key]) = 1 THEN Str(r.values[key][1])
                        ELSE Strings(r.values[key])])

(***************************************************************************)
(* mime/multipart.Reader over an in-memory body, as driven by              *)
(* parseMultipartForm.  The body is shorter than the reader's buffer, so   *)
(* the reader sees the whole rest of the body at once.  Header             *)
(* continuation lines and quoted-printable parts are not modelled.         *)
(***************************************************************************)
\* index (1-based) of the first occurrence of sub in s, 0 if none
Index(s, sub) ==
    LET hits == {i \in 1..(Len(s) - Len(sub) + 1) : SubSeq(s, i, i + Len(sub) - 1) = sub}
    IN  IF hits = {} THEN 0 ELSE CHOOSE i \in hits : \A j \in hits : i <= j

\* index (1-based) of the last occurrence of byte c in s, 0 if none
LastIndexByte(s, c) ==
    LET hits == {i \in 1..Len(s) : s[i] = c}
    IN  IF hits = {} THEN 0 ELSE CHOOSE i \in hits : \A j \in hits : i >= j

RECURSIVE skipLWSPChar(_)
skipLWSPChar(b) == IF Len(b) > 0 /\ (b[1] = 32 \/ b[1] = 9) THEN skipLWSPChar(Tail(b)) ELSE b

\* bufio.Reader.ReadSlice('\n'): the line with its newline, or the rest and io.EOF
ReadSlice(buf) ==
    LET i == IndexByte(buf, 10)
    IN  IF i = 0 THEN [line |-> buf, rest |-> <<>>, eof |-> TRUE]
        ELSE [line |-> SubSeq(buf, 1, i), rest |-> From(buf, i), eof |-> FALSE]

dashBoundary(boundary) == <<45, 45>> \o boundary
dashBoundaryDash(boundary) == <<45, 45>> \o boundary \o <<45, 45>>

isFinalBoundary(line, boundary, nl) ==
    /\ HasPrefix(line, dashBoundaryDash(boundary))
    /\ LET rest == skipLWSPChar(From(line, Len(dashBoundaryDash(boundary))))
       IN  Len(rest) = 0 \/ rest = nl

\* the line separator after isBoundaryDelimiterLine looked at line: on the
\* first part a delimiter line ending in a bare \n switches the reader to \n
nlAfterDelimiterLine(line, boundary, nl, partsRead) ==
    IF /\ HasPrefix(line, dashBoundary(boundary))
       /\ partsRead = 0
       /\ skipLWSPChar(From(line, Len(dashBoundary(boundary)))) = <<10>>
    THEN Tail(nl)
    ELSE nl

isBoundaryDelimiterLine(line, boundary, nl, partsRead) ==
    /\ HasPrefix(line, dashBoundary(boundary))
    /\ skipLWSPChar(From(line, Len(dashBoundary(boundary))))
         = nlAfterDelimiterLine(line, boundary, nl, partsRead)

\* net/textproto: a header line without its line end
trimLineEnd(line) ==
    IF Len(line) > 0 /\ line[Len(line)] = 10
    THEN (IF Len(line) > 1 /\ line[Len(line) - 1] = 13
          THEN SubSeq(line, 1, Len(line) - 2)
          ELSE SubSeq(line, 1, Len(line) - 1))
    ELSE line

validHeaderFieldByte(c) == isTokenChar(c)
validHeaderValueByte(c) == (c >= 32 /\ c # 127) \/ c = 9

headerOk(m, rest) == [kind |-> "ok", header |-> m, rest |-> rest]
headerErr == [kind |-> "err"]
headerEOF == [kind |-> "eof"]

RECURSIVE readHeaderLines(_, _)

\* the header m with the field key: value added; a repeated key keeps its
\* first value (Header.Get), a line with an empty key is skipped
headerAdd(rest, key, value, m) ==
    IF key = <<>> \/ key \in DOMAIN m THEN readHeaderLines(rest, m)
    ELSE readHeaderLines(rest, (key :> value) @@ m)

\* the header line cut at its colon
headerField(rest, c, m) ==
    IF ~c.found THEN headerErr
    ELSE IF \E i \in 1..Len(c.before) : ~validHeaderFieldByte(c.before[i]) THEN headerErr
    ELSE IF \E i \in 1..Len(c.after) : ~validHeaderValueByte(c.after[i]) THEN headerErr
    ELSE headerAdd(rest, ToLower(c.before), skipLWSPChar(c.after), m)

\* the header line kv without its line end: an empty line ends the header
headerLine(rest, kv, m) ==
    IF kv = <<>> THEN headerOk(m, rest) ELSE headerField(rest, Cut(kv, 58), m)

headerSlice(l, m) == headerLine(l.rest, trimLineEnd(l.line), m)

\* the line loop of readMIMEHeader, m holding the header read so far
readHeaderLines(buf, m) == IF buf = <<>> THEN headerEOF ELSE headerSlice(ReadSlice(buf), m)

\* textproto.Reader.ReadMIMEHeader: kind "ok" with the header (lower-cased
\* key to first value) and the rest of the body, kind "eof" for io.EOF, kind
\* "err" for a ProtocolError
readMIMEHeader(buf) ==
    IF Len(buf) > 0 /\ (buf[1] = 32 \/ buf[1] = 9) THEN headerErr
    ELSE readHeaderLines(buf, <<>>)

\* the byte c after the prefix decides, d being the rest after c
matchAfterByte(c, d, readErr) ==
    IF c = 32 \/ c = 9 \/ c = 13 \/ c = 10 THEN 1
    ELSE IF c # 45 THEN -1
    ELSE IF d = <<>> THEN (IF readErr THEN -1 ELSE 0)
    ELSE IF d[1] = 45 THEN 1
    ELSE -1

\* matchAfterPrefix: +1 the prefix is a boundary, -1 it is not, 0 undecided
matchAfterPrefix(buf, prefix, readErr) ==
    IF Len(buf) = Len(prefix) THEN (IF readErr THEN 1 ELSE 0)
    ELSE matchAfterByte(buf[Len(prefix) + 1], From(buf, Len(prefix) + 1), readErr)

scanResult(n, err) == [n |-> n, err |-> err]
\* the error of a read that found no boundary
scanReadErr(readErr) == IF readErr THEN "ErrUnexpectedEOF" ELSE "nil"

\* a boundary prefix at offset n with the verdict m of matchAfterPrefix, the
\* prefix being len bytes long
scanMatched(n, len, m) ==
    IF m = -1 THEN scanResult(n + len, "nil")
    ELSE IF m = 0 THEN scanResult(n, "nil")
    ELSE scanResult(n, "EOF")

\* no full boundary in buf: hold back a tail that may begin one; last is the
\* index of the last first byte of nldb
scanTail(buf, nldb, last, readErr) ==
    IF HasPrefix(nldb, buf) THEN scanResult(0, scanReadErr(readErr))
    ELSE IF last # 0 /\ HasPrefix(nldb, From(buf, last - 1)) THEN scanResult(last - 1, "nil")
    ELSE scanResult(Len(buf), scanReadErr(readErr))

\* the search for a boundary inside the part, i the index of the first nldb
scanBody(buf, nldb, i, readErr) ==
    IF i # 0
    THEN scanMatched(i - 1, Len(nldb), matchAfterPrefix(From(buf, i - 1), nldb, readErr))
    ELSE scanTail(buf, nldb, LastIndexByte(buf, nldb[1]), readErr)

\* scanUntilBoundary: n bytes of data to hand out, then err: "nil", "EOF"
\* (the part ends) or "ErrUnexpectedEOF"; readErr tells that the body has
\* been read to its end; db and nldb are the reader's dashBoundary and
\* nlDashBoundary
scanUntilBoundary(buf, db, nldb, total, readErr) ==
    IF total = 0 /\ HasPrefix(buf, db)
    THEN scanMatched(0, Len(db), matchAfterPrefix(buf, db, readErr))
    ELSE IF total = 0 /\ HasPrefix(db, buf) THEN scanResult(0, scanReadErr(readErr))
    ELSE scanBody(buf, nldb, Index(buf, nldb), readErr)

RECURSIVE readPart(_, _, _, _, _, _)

\* one Read of the part gave r
readStep(buf, boundary, nl, total, readErr, acc, r) ==
    IF r.n = 0 /\ r.err = "nil" THEN readPart(buf, boundary, nl, total, TRUE, acc)
    ELSE IF r.err = "nil"
    THEN readPart(From(buf, r.n), boundary, nl, total + r.n, readErr,
                  acc \o SubSeq(buf, 1, r.n))
    ELSE [data |-> acc \o SubSeq(buf, 1, r.n), failed |-> r.err # "EOF",
          rest |-> From(buf, r.n)]

\* io.ReadAll(part): the part's data, whether the read failed, and the rest
\* of the body
readPart(buf, boundary, nl, total, readErr, acc) ==
    readStep(buf, boundary, nl, total, readErr, acc,
             scanUntilBoundary(buf, dashBoundary(boundary), nl \o dashBoundary(boundary),
                               total, readErr))

\* the part whose header h was read after a delimiter line
newPart(h, nl, partsRead) ==
    IF h.kind = "ok"
    THEN [kind |-> "part", header |-> h.header, rest |-> h.rest, nl |-> nl,
          partsRead |-> partsRead + 1]
    ELSE h

RECURSIVE NextPart(_, _, _, _, _)

\* the line l, read by NextPart, with the line separator nl2 the delimiter
\* check left behind
nextPartLine(l, boundary, nl, nl2, partsRead, expectNewPart) ==
    IF l.eof /\ isFinalBoundary(l.line, boundary, nl) THEN headerEOF
    ELSE IF l.eof THEN headerErr
    ELSE IF isBoundaryDelimiterLine(l.line, boundary, nl, partsRead)
    THEN newPart(readMIMEHeader(l.rest), nl2, partsRead)
    ELSE IF isFinalBoundary(l.line, boundary, nl2) THEN headerEOF
    ELSE IF expectNewPart THEN headerErr
    ELSE IF partsRead = 0 THEN NextPart(l.rest, boundary, nl2, partsRead, FALSE)
    ELSE IF l.line = nl2 THEN NextPart(l.rest, boundary, nl2, partsRead, TRUE)
    ELSE headerErr

nextPartSlice(l, boundary, nl, partsRead, expectNewPart) ==
    nextPartLine(l, boundary, nl, nlAfterDelimiterLine(l.line, boundary, nl, partsRead),
                 partsRead, expectNewPart)

\* multipart.Reader.NextPart: kind "part" with the part's header and the
\* reader after it, kind "eof" for io.EOF, kind "err" for any other error
NextPart(buf, boundary, nl, partsRead, expectNewPart) ==
    IF boundary = <<>> THEN headerErr
    ELSE nextPartSlice(ReadSlice(buf), boundary, nl, partsRead, expectNewPart)

\* the disposition parameter name of the parsed Content-Disposition r
dispositionParam(r, name) ==
    IF r.err THEN <<>> ELSE IF name \in DOMAIN r.params THEN r.params[name] ELSE <<>>

\* Part.parseContentDisposition
partDisposition(header) ==
    ParseMediaType(IF <<99, 111, 110, 116, 101, 110, 116, 45, 100, 105, 115, 112, 111, 115,
                        105, 116, 105, 111, 110>> \in DOMAIN header   \* "content-disposition"
                   THEN header[<<99, 111, 110, 116, 101, 110, 116, 45, 100, 105, 115, 112,
                                 111, 115, 105, 116, 105, 111, 110>>]
                   ELSE <<>>)

formNameOf(r) ==
    IF r.mediatype # <<102, 111, 114, 109, 45, 100, 97, 116, 97>>     \* "form-data"
    THEN <<>>
    ELSE dispositionParam(r, <<110, 97, 109, 101>>)                   \* "name"

\* Part.FormName
FormName(header) == formNameOf(partDisposition(header))

RECURSIVE trimSlashes(_)
trimSlashes(s) ==
    IF Len(s) > 0 /\ s[Len(s)] = 47 THEN trimSlashes(SubSeq(s, 1, Len(s) - 1)) ELSE s

baseOf(p) == IF p = <<>> THEN <<47>> ELSE From(p, LastIndexByte(p, 47))

\* path/filepath.Base on a non-empty path
filepathBase(path) == baseOf(trimSlashes(path))

fileNameOf(f) == IF f = <<>> THEN <<>> ELSE filepathBase(f)

\* Part.FileName
FileName(header) ==
    fileNameOf(dispositionParam(partDisposition(header),
                                <<102, 105, 108, 101, 110, 97, 109, 101>>))   \* "filename"

\* the map built for a file part
fileInfo(fileName, partData) ==
    IF isBinaryData(partData)
    THEN (<<102, 105, 108, 101, 110, 97, 109, 101>> :> Str(fileName))     \* "filename"
         @@ (<<115, 105, 122, 101>> :> GoInt(Len(partData)))               \* "size"
         @@ (<<99, 111, 110, 116, 101, 110, 116>> :> Str(EncodeToString(partData)))  \* "content"
         @@ (<<101, 110, 99, 111, 100, 105, 110, 103>>
                :> Str(<<98, 97, 115, 101, 54, 52>>))                      \* "encoding": "base64"
    ELSE (<<102, 105, 108, 101, 110, 97, 109, 101>> :> Str(fileName))
         @@ (<<115, 105, 122, 101>> :> GoInt(Len(partData)))
         @@ (<<99, 111, 110, 116, 101, 110, 116>> :> Str(partData))

\* the result with the part, read as rp, added
addPart(result, fieldName, fileName, rp) ==
    IF rp.failed \/ fieldName = <<>> THEN result
    ELSE IF fileName # <<>> THEN (fieldName :> JObject(fileInfo(fileName, rp.data))) @@ result
    ELSE (fieldName :> Str(rp.data)) @@ result

RECURSIVE multipartParts(_, _, _, _, _, _)

\* the body of the loop for the part np, read as rp
multipartPart(data, boundary, np, rp, result) ==
    multipartParts(data, rp.rest, boundary, np.nl, np.partsRead,
                   addPart(result, FormName(np.header), FileName(np.header), rp))

\* multipartNext that answers an error with the fields read so far
multipartNextPartial(data, boundary, np, result) ==
    IF np.kind = "eof" \/ np.kind = "err" THEN JObject(result)
    ELSE multipartPart(data, boundary, np,
                       readPart(np.rest, boundary, np.nl, 0, FALSE, <<>>), result)

multipartNext(data, boundary, np, result) ==
    IF np.kind = "eof" THEN JObject(result)
    ELSE IF np.kind = "err" THEN Str(data)
    ELSE multipartPart(data, boundary, np,
                       readPart(np.rest, boundary, np.nl, 0, FALSE, <<>>), result)

\* the loop of parseMultipartForm over the reader at buf, result holding the
\* fields so far
multipartParts(data, buf, boundary, nl, partsRead, result) ==
    multipartNext(data, boundary, NextPart(buf, boundary, nl, partsRead, FALSE), result)

parseMultipartForm(data, params) ==
    IF <<98, 111, 117, 110, 100, 97, 114, 121>> \notin DOMAIN params    \* "boundary"
    THEN Str(data)
    ELSE multipartParts(data, data, params[<<98, 111, 117, 110, 100, 97, 114, 121>>],
                        <<13, 10>>, 0, <<>>)

(***************************************************************************)
(* BodyService.ParseBody                                                   *)
(***************************************************************************)
DefaultMaxBodySize == 10 * 1024 * 1024

\* the type switch of ParseBody on body (after the size cap) once it was
\* found not to be binary.  The field parser records which branch made the
\* content.
dispatchContent(body, mediaType, params) ==
    IF HasPrefix(mediaType, <<97, 112, 112, 108, 105, 99, 97, 116, 105, 111, 110, 47,
                              106, 115, 111, 110>>)                 \* "application/json"
    THEN [IsBinary |-> FALSE, Content |-> parseJSON(body), parser |-> "parseJSON"]
    ELSE IF \/ HasPrefix(mediaType, <<97, 112, 112, 108, 105, 99, 97, 116, 105, 111, 110,
                                      47, 120, 109, 108>>)          \* "application/xml"
            \/ HasPrefix(mediaType, <<116, 101, 120, 116, 47, 120, 109, 108>>)  \* "text/xml"
    THEN [IsBinary |-> FALSE, Content |-> parseXML(body), parser |-> "parseXML"]
    ELSE IF HasPrefix(mediaType, <<97, 112, 112, 108, 105, 99, 97, 116, 105, 111, 110, 47,
                                   120, 45, 119, 119, 119, 45, 102, 111, 114, 109, 45, 117,
                                   114, 108, 101, 110, 99, 111, 100, 101, 100>>)
                                              \* "application/x-www-form-urlencoded"
    THEN [IsBinary |-> FALSE, Content |-> parseFormURLEncoded(body),
          parser |-> "parseFormURLEncoded"]
    ELSE IF HasPrefix(mediaType, <<109, 117, 108, 116, 105, 112, 97, 114, 116, 47, 102,
                                   111, 114, 109, 45, 100, 97, 116, 97>>)  \* "multipart/form-data"
    THEN [IsBinary |-> FALSE, Content |-> parseMultipartForm(body, params),
          parser |-> "parseMultipartForm"]
    ELSE IF HasPrefix(mediaType, <<116, 101, 120, 116, 47>>)        \* "text/"
    THEN [IsBinary |-> FALSE, Content |-> Str(body), parser |-> "text"]
    ELSE IF utf8Valid(body)
    THEN [IsBinary |-> FALSE, Content |-> Str(body), parser |-> "default"]
    ELSE [IsBinary |-> TRUE, Content |-> Str(EncodeToString(body)), parser |-> "none"]

\* parseCapped with the type switch taken before the binary check
parseCappedDispatchFirst(body, size, truncated, ct, mediaType, params) ==
    LET c == dispatchContent(body, mediaType, params)
    IN  [t |-> "BodyInfo",
         ContentType |-> ct,
         Size |-> size,
         Truncated |-> truncated,
         IsBinary |-> c.IsBinary,
         Content |-> c.Content,
         parser |-> c.parser]

\* parseCapped without the return that ends the binary branch
parseCappedNoReturn(body, size, truncated, ct, mediaType, params) ==
    LET c == dispatchContent(body, mediaType, params)
    IN  [t |-> "BodyInfo",
         ContentType |-> ct,
         Size |-> size,
         Truncated |-> truncated,
         IsBinary |-> isBinaryData(body) \/ c.IsBinary,
         Content |-> c.Content,
         parser |-> c.parser]

\* ParseBody after the empty-body check, given the body as cut to the cap
parseCapped(body, size, truncated, ct, mediaType, params) ==
    LET c == IF isBinaryData(body)
             THEN [IsBinary |-> TRUE, Content |-> Str(EncodeToString(body)),
                   parser |-> "none"]
             ELSE dispatchContent(body, mediaType, params)
    IN  [t |-> "BodyInfo",
         ContentType |-> ct,
         Size |-> size,
         Truncated |-> truncated,
         IsBinary |-> c.IsBinary,
         Content |-> c.Content,
         parser |-> c.parser]

\* ParseBody with the body marked truncated but not cut
ParseBodyNoCut(body, ct, maxSize) ==
    IF Len(body) = 0 THEN Nil
    ELSE LET mt == ParseMediaType(ct)
         IN  parseCapped(body, Len(body), Len(body) > maxSize, ct,
                         IF mt.err THEN ct ELSE mt.mediatype, mt.params)

\* ParseBody with the size taken after the cut
ParseBodySizeAfterCut(body, ct, maxSize) ==
    IF Len(body) = 0 THEN Nil
    ELSE LET truncated == Len(body) > maxSize
             capped == IF truncated THEN SubSeq(body, 1, maxSize) ELSE body
             mt == ParseMediaType(ct)
         IN  parseCapped(capped, Len(capped), truncated, ct,
                         IF mt.err THEN ct ELSE mt.mediatype, mt.params)

\* ParseBody without the empty-body check
ParseBodyNoEmptyCheck(body, ct, maxSize) ==
    LET truncated == Len(body) > maxSize
        capped == IF truncated THEN SubSeq(body, 1, maxSize) ELSE body
        mt == ParseMediaType(ct)
    IN  parseCapped(capped, Len(body), truncated, ct,
                    IF mt.err THEN ct ELSE mt.mediatype, mt.params)

\* ParseBody that cuts at the cap whatever the length of the body
ParseBodyAlwaysCut(body, ct, maxSize) ==
    IF Len(body) = 0 THEN Nil
    ELSE LET truncated == Len(body) > maxSize
             capped == Slice(body, maxSize)
             mt == ParseMediaType(ct)
             mediaType == IF mt.err THEN ct ELSE mt.mediatype
         IN  IF capped.panic THEN Panic
             ELSE parseCapped(capped.v, Len(body), truncated, ct, mediaType, mt.params)

ParseBody(body, ct, maxSize) ==
    IF Len(body) = 0 THEN Nil
    ELSE LET truncated == Len(body) > maxSize
             capped == IF truncated THEN Slice(body, maxSize)
                       ELSE [panic |-> FALSE, v |-> body]
             mt == ParseMediaType(ct)
             mediaType == IF mt.err THEN ct ELSE mt.mediatype
         IN  IF capped.panic THEN Panic
             ELSE parseCapped(capped.v, Len(body), truncated, ct, mediaType, mt.params)

(***************************************************************************)
(* encoding/base64: StdEncoding.DecodeString, as called by decodeBase64URL *)
(***************************************************************************)
\* the value of a character of the standard alphabet, -1 for any other byte
base64Value(c) ==
    IF c >= 65 /\ c <= 90 THEN c - 65
    ELSE IF c >= 97 /\ c <= 122 THEN c - 71
    ELSE IF c >= 48 /\ c <= 57 THEN c + 4
    ELSE IF c = 43 THEN 62
    ELSE IF c = 47 THEN 63
    ELSE -1

isBase64Char(c) == base64Value(c) >= 0

\* the decoder skips \r and \n
stripNewlines(s) == SelectSeq(s, LAMBDA c : c # 13 /\ c # 10)

\* the 24 bits of four characters
quantumBits(a, b, c, d) ==
    base64Value(a) * 262144 + base64Value(b) * 4096 + base64Value(c) * 64 + base64Value(d)

\* the three bytes of 24 bits
quantumBytes(n) == <<n \div 65536, (n \div 256) % 256, n % 256>>

decodeOk(v) == [err |-> FALSE, v |-> v]
decodeErr == [err |-> TRUE, v |-> <<>>]

\* the decoded bytes b put before the decoding r of what follows
decodeCons(b, r) == IF r.err THEN decodeErr ELSE decodeOk(b \o r.v)

RECURSIVE decodeQuanta(_)
\* the quantum loop over the input without its newlines: four characters give
\* three bytes; the last quantum may end in = or ==; trailing bits are not
\* checked (the encoding is not strict)
decodeQuanta(t) ==
    IF t = <<>> THEN decodeOk(<<>>)
    ELSE IF Len(t) < 4 THEN decodeErr
    ELSE IF ~isBase64Char(t[1]) \/ ~isBase64Char(t[2]) THEN decodeErr
    ELSE IF isBase64Char(t[3]) /\ isBase64Char(t[4])
    THEN decodeCons(quantumBytes(quantumBits(t[1], t[2], t[3], t[4])), decodeQuanta(From(t, 4)))
    ELSE IF Len(t) # 4 \/ t[4] # 61 THEN decodeErr
    ELSE IF t[3] = 61
    THEN decodeOk(SubSeq(quantumBytes(quantumBits(t[1], t[2], 65, 65)), 1, 1))
    ELSE IF isBase64Char(t[3])
    THEN decodeOk(SubSeq(quantumBytes(quantumBits(t[1], t[2], t[3], 65)), 1, 2))
    ELSE decodeErr

DecodeString(s) == decodeQuanta(stripNewlines(s))

(***************************************************************************)
(* JWTService                                                              *)
(***************************************************************************)
RECURSIVE Split(_, _)
\* strings.Split(s, sep) for a one-byte separator
Split(s, c) ==
    IF IndexByte(s, c) = 0 THEN <<s>>
    ELSE <<SubSeq(s, 1, IndexByte(s, c) - 1)>> \o Split(From(s, IndexByte(s, c)), c)

\* strings.ReplaceAll(s, old, new) for one-byte old and new
ReplaceAll(s, old, new) == [i \in 1..Len(s) |-> IF s[i] = old THEN new ELSE s[i]]

\* strings.Repeat("=", n)
Repeat(c, n) == [i \in 1..n |-> c]

DefaultHeaderNames ==
    <<65, 117, 116, 104, 111, 114, 105, 122, 97, 116, 105, 111, 110, 44, 88, 45, 74, 87,
      84, 45, 84, 111, 107, 101, 110, 44, 88, 45, 65, 117, 116, 104, 45, 84, 111, 107,
      101, 110, 44, 74, 87, 84, 45, 84, 111, 107, 101, 110>>
    \* Authorization,X-JWT-Token,X-Auth-Token,JWT-Token

trimNames(names) == [i \in 1..Len(names) |-> TrimSpace(names[i])]

\* NewJWTService: the configured header names, env being JWT_HEADER_NAMES
NewJWTService(env) == trimNames(Split(IF env = <<>> THEN DefaultHeaderNames ELSE env, 44))

truncateLimit == 30
truncateKeep == 10

\* truncateToken with a token of truncateLimit bytes cut as well
truncateTokenOffByOne(token) ==
    IF Len(token) < truncateLimit THEN token
    ELSE SubSeq(token, 1, truncateKeep) \o <<46, 46, 46>>
         \o SubSeq(token, Len(token) - truncateKeep + 1, Len(token))

\* truncateToken: the token as displayed
truncateToken(token) ==
    IF Len(token) <= truncateLimit THEN token
    ELSE SubSeq(token, 1, truncateKeep) \o <<46, 46, 46>>
         \o SubSeq(token, Len(token) - truncateKeep + 1, Len(token))

\* the padding repair of decodeBase64URL
padBase64(input) == input \o Repeat(61, (4 - (Len(input) % 4)) % 4)

\* the JSON step of decodeBase64URL on the decoded bytes d
decodeJSONMap(d) == IF d.err THEN [ok |-> FALSE] ELSE UnmarshalMap(d.v)

\* decodeBase64URL without the change of alphabet
decodeBase64URLNoRemap(input) == decodeJSONMap(DecodeString(padBase64(input)))

\* decodeBase64URL: ok and the map (Nil for a nil map), or not ok
decodeBase64URL(input) ==
    decodeJSONMap(DecodeString(padBase64(ReplaceAll(ReplaceAll(input, 45, 43), 95, 47))))

\* a JwtInfo
JwtInfo(rawToken, header, payload) ==
    [t |-> "JwtInfo", RawToken |-> rawToken, Header |-> header, Payload |-> payload]

\* the two decoding steps of decodeJWT
decodeParts(token, header, payload) ==
    IF ~header.ok THEN Nil
    ELSE IF ~payload.ok THEN Nil
    ELSE JwtInfo(truncateToken(token), header.v, payload.v)

\* decodeSplit with the segment count checked for a minimum only
decodeSplitAtLeast3(token, parts) ==
    IF Len(parts) < 3 THEN Nil
    ELSE decodeParts(token, decodeBase64URL(parts[1]), decodeBase64URL(parts[2]))

\* decodeJWT on the token split into parts
decodeSplit(token, parts) ==
    IF Len(parts) # 3 THEN Nil
    ELSE decodeParts(token, decodeBase64URL(parts[1]), decodeBase64URL(parts[2]))

\* decodeJWT: the JwtInfo, or Nil
decodeJWT(token) == IF token = <<>> THEN Nil ELSE decodeSplit(token, Split(token, 46))

\* headers[key] of a map[string]string
mapGet(m, key) == IF key \in DOMAIN m THEN m[key] ELSE <<>>

\* the header value under the configured name, then under its lower case
lookupToken(hdrs, headerName) ==
    IF mapGet(hdrs, headerName) # <<>> THEN mapGet(hdrs, headerName)
    ELSE mapGet(hdrs, ToLower(headerName))

\* stripBearer without the trim after the prefix
stripBearerNoTrim(token) ==
    IF HasPrefix(ToLower(token), <<98, 101, 97, 114, 101, 114, 32>>)
    THEN From(token, 7)
    ELSE token

\* the token without its "Bearer " prefix
stripBearer(token) ==
    IF HasPrefix(ToLower(token), <<98, 101, 97, 114, 101, 114, 32>>)     \* "bearer "
    THEN TrimSpace(From(token, 7))
    ELSE token

\* jwtInfoMap[headerName] = *jwtInfo, when there is one
putJwtInfo(m, headerName, jwtInfo) ==
    IF jwtInfo = Nil THEN m ELSE (headerName :> jwtInfo) @@ m

\* the body of the loop of ExtractAndDecodeJWTs for the value token
extractOne(m, headerName, token) ==
    IF token = <<>> THEN m ELSE putJwtInfo(m, headerName, decodeJWT(stripBearer(token)))

RECURSIVE extractLoop(_, _, _, _)
\* the loop of ExtractAndDecodeJWTs from the i-th configured name on
extractLoop(hdrs, names, i, m) ==
    IF i > Len(names) THEN m
    ELSE extractLoop(hdrs, names, i + 1, extractOne(m, names[i], lookupToken(hdrs, names[i])))

\* a non-nil map[string]models.JwtInfo
JwtMap(m) == [t |-> "map", v |-> m]

\* ExtractAndDecodeJWTs: the map from configured header name to JwtInfo
ExtractAndDecodeJWTs(hdrs, names) ==
    IF Cardinality(DOMAIN hdrs) = 0 THEN JwtMap(<<>>)
    ELSE JwtMap(extractLoop(hdrs, names, 1, <<>>))

(***************************************************************************)
(* Inputs of ParseBody                                                     *)
(***************************************************************************)
\* NUL, a control byte, newline, 'A', the two bytes of U+00E9, an invalid byte
BinaryAlphabet == {0, 1, 10, 65, 195, 169, 255}
\* a control byte and 'A': bodies that differ in their share of control bytes
RatioAlphabet == {1, 65}

SampleBodies == {
    <<123, 34, 97, 34, 58, 91, 49, 44, 34, 195, 169, 34, 93, 125>>,  \* {"a":[1,"é"]}
    <<32, 91, 49, 44, 32, 50, 93, 32>>,                               \* " [1, 2] "
    <<97, 61, 49, 38, 98, 61, 37, 52, 49, 43, 38, 97, 61, 50>>,       \* a=1&b=%41+&a=2
    <<97, 61, 37, 122, 122>>,                                         \* a=%zz
    <<60, 97, 62, 195, 169, 60, 47, 97, 62>>,                         \* <a>é</a>
    \* --b\r\nContent-Disposition: form-data; name="a"\r\n\r\n1\r\n--b--\r\n
    <<45, 45, 98, 13, 10, 67, 111, 110, 116, 101, 110, 116, 45, 68, 105, 115, 112, 111,
      115, 105, 116, 105, 111, 110, 58, 32, 102, 111, 114, 109, 45, 100, 97, 116, 97, 59,
      32, 110, 97, 109, 101, 61, 34, 97, 34, 13, 10, 13, 10, 49, 13, 10, 45, 45, 98, 45,
      45, 13, 10>>,
    \* --b\r\nContent-Disposition: form-data; name="f"; filename="x"\r\n\r\n\x01\r\n--b--
    <<45, 45, 98, 13, 10, 67, 111, 110, 116, 101, 110, 116, 45, 68, 105, 115, 112, 111,
      115, 105, 116, 105, 111, 110, 58, 32, 102, 111, 114, 109, 45, 100, 97, 116, 97, 59,
      32, 110, 97, 109, 101, 61, 34, 102, 34, 59, 32, 102, 105, 108, 101, 110, 97, 109,
      101, 61, 34, 120, 34, 13, 10, 13, 10, 1, 13, 10, 45, 45, 98, 45, 45>>
}

\* a field and a part without a header:
\* --b\r\nContent-Disposition: form-data; name="a"\r\n\r\n1\r\n--b\r\n\r\n2\r\n--b--\r\n
TwoParts ==
    <<45, 45, 98, 13, 10, 67, 111, 110, 116, 101, 110, 116, 45, 68, 105, 115,
      112, 111, 115, 105, 116, 105, 111, 110, 58, 32, 102, 111, 114, 109, 45,
      100, 97, 116, 97, 59, 32, 110, 97, 109, 101, 61, 34, 97, 34, 13, 10, 13,
      10, 49, 13, 10, 45, 45, 98, 13, 10, 13, 10, 50, 13, 10, 45, 45, 98, 45,
      45, 13, 10>>

CT_Empty == <<>>
CT_Json == <<97, 112, 112, 108, 105, 99, 97, 116, 105, 111, 110, 47, 106, 115, 111, 110>>
    \* application/json
CT_JsonCharset == <<97, 112, 112, 108, 105, 99, 97, 116, 105, 111, 110, 47, 106, 115, 111,
                    110, 59, 32, 99, 104, 97, 114, 115, 101, 116, 61, 117, 116, 102, 45, 56>>
    \* application/json; charset=utf-8
CT_JsonUpper == <<65, 80, 80, 76, 73, 67, 65, 84, 73, 79, 78, 47, 74, 83, 79, 78>>
    \* APPLICATION/JSON
CT_JsonBadParam == <<65, 112, 112, 108, 105, 99, 97, 116, 105, 111, 110, 47, 74, 83, 79,
                     78, 59, 32, 99, 104, 97, 114, 115, 101, 116>>
    \* Application/JSON; charset
CT_Xml == <<97, 112, 112, 108, 105, 99, 97, 116, 105, 111, 110, 47, 120, 109, 108>>
    \* application/xml
CT_TextXml == <<116, 101, 120, 116, 47, 120, 109, 108>>
    \* text/xml
CT_Form == <<97, 112, 112, 108, 105, 99, 97, 116, 105, 111, 110, 47, 120, 45, 119, 119,
             119, 45, 102, 111, 114, 109, 45, 117, 114, 108, 101, 110, 99, 111, 100, 101,
             100>>
    \* application/x-www-form-urlencoded
CT_Multipart == <<109, 117, 108, 116, 105, 112, 97, 114, 116, 47, 102, 111, 114, 109, 45,
                  100, 97, 116, 97>>
    \* multipart/form-data
CT_MultipartB == <<109, 117, 108, 116, 105, 112, 97, 114, 116, 47, 102, 111, 114, 109, 45,
                   100, 97, 116, 97, 59, 32, 98, 111, 117, 110, 100, 97, 114, 121, 61, 98>>
    \* multipart/form-data; boundary=b
CT_Text == <<116, 101, 120, 116, 47, 112, 108, 97, 105, 110>>
    \* text/plain
CT_Octet == <<97, 112, 112, 108, 105, 99, 97, 116, 105, 111, 110, 47, 111, 99, 116, 101,
              116, 45, 115, 116, 114, 101, 97, 109>>
    \* application/octet-stream

CT_JsonTwice == <<65, 112, 112, 108, 105, 99, 97, 116, 105, 111, 110, 47, 74, 83, 79, 78,
                  59, 32, 97, 61, 49, 59, 32, 97, 61, 50>>
    \* Application/JSON; a=1; a=2

ContentTypes == {CT_Empty, CT_Json, CT_JsonCharset, CT_JsonUpper, CT_JsonBadParam, CT_JsonTwice, CT_Xml,
                 CT_TextXml, CT_Form, CT_Multipart, CT_MultipartB, CT_Text, CT_Octet}

\* NewBodyService: the default cap, or a positive MAX_BODY_SIZE
SmallCaps == 1..MaxCap

BodyInputs ==
    ((SeqsUpTo(BinaryAlphabet, MaxBinLen) \cup SampleBodies)
        \X ContentTypes \X (SmallCaps \cup {DefaultMaxBodySize}))
    \cup UNION {{<<b, ct, cap>> : ct \in ContentTypes, cap \in 1..Len(b)} : b \in SampleBodies}
    \cup (SeqsUpTo(RatioAlphabet, MaxRatioLen) \X {CT_Empty, CT_Text} \X {DefaultMaxBodySize})
    \cup {<<TwoParts, CT_MultipartB, cap>> : cap \in 1..(Len(TwoParts) + 1)}

(***************************************************************************)
(* Inputs of ExtractAndDecodeJWTs                                          *)
(***************************************************************************)
\* token segments: the empty segment, {} , null, [], a cut-off {, a byte
\* outside the alphabet, and {"~":1} (its encoding has a '-')
Segments == {
    <<>>,
    <<101, 51, 48>>,                                    \* e30
    <<98, 110, 86, 115, 98, 65>>,                       \* bnVsbA
    <<87, 49, 48>>,                                     \* W10
    <<101, 51>>,                                        \* e3
    <<33>>,                                             \* !
    <<101, 121, 74, 45, 73, 106, 111, 120, 102, 81>>    \* eyJ-IjoxfQ
}

RECURSIVE Join(_)
\* the segments joined by '.'
Join(segs) == IF Len(segs) = 1 THEN segs[1] ELSE segs[1] \o <<46>> \o Join(Tail(segs))

\* every token of 1..MaxSegments segments
SegmentTokens == {Join(segs) : segs \in UNION {[1..n -> Segments] : n \in 1..MaxSegments}}

\* header values: none, a token, a token with two segments, a token of null
\* segments, a token after "Bearer "
TokenSamples == {
    <<>>,
    <<101, 51, 48, 46, 101, 51, 48, 46, 120>>,                                   \* e30.e30.x
    <<97, 46, 98>>,                                                              \* a.b
    <<98, 110, 86, 115, 98, 65, 46, 98, 110, 86, 115, 98, 65, 46, 120>>,         \* bnVsbA.bnVsbA.x
    <<66, 101, 97, 114, 101, 114, 32, 101, 51, 48, 46, 101, 51, 48, 46, 120>>    \* Bearer e30.e30.x
}

\* a token of more than truncateLimit bytes
LongToken ==
    <<101, 121, 74, 45, 73, 106, 111, 120, 102, 81, 46, 101, 121, 74, 45, 73, 106, 111,
      120, 102, 81, 46, 115, 105, 103, 110, 97, 116, 117, 114, 101, 45, 115, 105, 103,
      110, 97, 116, 117, 114, 101>>         \* eyJ-IjoxfQ.eyJ-IjoxfQ.signature-signature

\* a token of exactly truncateLimit bytes
Token30 ==
    <<101, 121, 74, 45, 73, 106, 111, 120, 102, 81, 46, 101, 121, 74, 45, 73, 106, 111,
      120, 102, 81, 46, 49, 50, 51, 52, 53, 54, 55, 56>>
                                            \* eyJ-IjoxfQ.eyJ-IjoxfQ.12345678

\* a token of 20 characters in 32 bytes: e30.e30. and 12 times U+00E9
NonAsciiToken ==
    <<101, 51, 48, 46, 101, 51, 48, 46, 195, 169, 195, 169, 195, 169, 195, 169, 195, 169,
      195, 169, 195, 169, 195, 169, 195, 169, 195, 169, 195, 169, 195, 169>>

LongTokens == {LongToken, Token30, NonAsciiToken}

\* prefixes of a header value
BearerPrefixes == {
    <<66, 101, 97, 114, 101, 114, 32>>,          \* "Bearer "
    <<98, 101, 97, 114, 101, 114, 32, 32>>,      \* "bearer  "
    <<66, 69, 65, 82, 69, 82, 32, 9, 32>>,       \* "BEARER \t "
    <<66, 101, 97, 114, 101, 114>>               \* "Bearer"
}

H_Authorization == <<65, 117, 116, 104, 111, 114, 105, 122, 97, 116, 105, 111, 110>>
H_authorization == <<97, 117, 116, 104, 111, 114, 105, 122, 97, 116, 105, 111, 110>>
H_AUTHORIZATION == <<65, 85, 84, 72, 79, 82, 73, 90, 65, 84, 73, 79, 78>>
H_X_JWT_Token == <<88, 45, 74, 87, 84, 45, 84, 111, 107, 101, 110>>       \* X-JWT-Token
H_x_jwt_token == <<120, 45, 106, 119, 116, 45, 116, 111, 107, 101, 110>>  \* x-jwt-token
H_X_Jwt_Token == <<88, 45, 74, 119, 116, 45, 84, 111, 107, 101, 110>>     \* X-Jwt-Token
H_X_Custom == <<88, 45, 67, 117, 115, 116, 111, 109>>                     \* X-Custom

HeaderKeys == {H_Authorization, H_authorization, H_AUTHORIZATION, H_X_JWT_Token,
               H_x_jwt_token, H_X_Jwt_Token, H_X_Custom}

\* JWT_HEADER_NAMES: unset, or " X-Custom ,authorization"
JwtEnvs == {
    <<>>,
    <<32, 88, 45, 67, 117, 115, 116, 111, 109, 32, 44, 97, 117, 116, 104, 111, 114, 105,
      122, 97, 116, 105, 111, 110>>
}

\* base64.RawURLEncoding.EncodeToString: the URL alphabet without padding
RawURLEncode(b) ==
    SelectSeq(ReplaceAll(ReplaceAll(EncodeToString(b), 43, 45), 47, 95), LAMBDA c : c # 61)

\* JSON objects as text, each with the value it stands for and whether all
\* its numbers fit a float64
RoundTripObjects == {
    [text |-> <<123, 125>>,                                          \* {}
     value |-> JObject(<<>>), inRange |-> TRUE],
    [text |-> <<123, 34, 126, 34, 58, 49, 125>>,                     \* {"~":1}
     value |-> JObject(<<126>> :> JNumber(<<49>>)), inRange |-> TRUE],
    [text |-> <<123, 34, 63, 34, 58, 48, 125>>,                      \* {"?":0}
     value |-> JObject(<<63>> :> JNumber(<<48>>)), inRange |-> TRUE],
    \* {"a":[true,null,"\u00e9"],"b":{"c":-1.5e2}} with U+00E9 as its two bytes
    [text |-> <<123, 34, 97, 34, 58, 91, 116, 114, 117, 101, 44, 110, 117, 108, 108, 44,
                34, 195, 169, 34, 93, 44, 34, 98, 34, 58, 123, 34, 99, 34, 58, 45, 49, 46,
                53, 101, 50, 125, 125>>,
     value |-> JObject((<<97>> :> JArray(<<JBool(TRUE), JNull, Str(<<195, 169>>)>>))
                       @@ (<<98>> :> JObject(<<99>> :> JNumber(<<45, 49, 46, 53, 101, 50>>)))),
     inRange |-> TRUE],
    [text |-> <<32, 123, 32, 34, 97, 34, 32, 58, 32, 49, 32, 125, 32>>,   \* " { "a" : 1 } "
     value |-> JObject(<<97>> :> JNumber(<<49>>)), inRange |-> TRUE],
    [text |-> <<123, 34, 110, 34, 58, 49, 101, 57, 57, 57, 125>>,         \* {"n":1e999}
     value |-> JObject(<<110>> :> JNumber(<<49, 101, 57, 57, 57>>)), inRange |-> FALSE]
}

\* third segments: none, x, sig-_= and two U+00E9 around a space
ThirdSegments == {<<>>, <<120>>, <<115, 105, 103, 45, 95, 61>>, <<195, 169, 32, 195, 169>>}

\* the token of the objects h and p, as text, and the third segment sig
RoundTripToken(h, p, sig) == RawURLEncode(h) \o <<46>> \o RawURLEncode(p) \o <<46>> \o sig

RoundTripTokens ==
    {RoundTripToken(h.text, p.text, sig) :
        h \in RoundTripObjects, p \in RoundTripObjects, sig \in ThirdSegments}

\* header maps of at most MaxHeaders headers
HeaderMaps ==
    UNION {[K -> TokenSamples] : K \in {K \in SUBSET HeaderKeys : Cardinality(K) <= MaxHeaders}}

\* a request with the one header Authorization
AuthorizationOnly(token) == H_Authorization :> token

JwtInputs ==
    ({AuthorizationOnly(token) :
        token \in SegmentTokens \cup LongTokens \cup RoundTripTokens
                  \cup {p \o t : p \in BearerPrefixes, t \in TokenSamples \cup LongTokens}}
        \X {<<>>})
    \cup (HeaderMaps \X JwtEnvs)

(***************************************************************************)
(* Specification of ParseBody: one call on inputs drawn from BodyInputs.   *)
(***************************************************************************)
JwtIdle == headers = <<>> /\ headerNames = <<>> /\ jwtInfoMap = Nil /\ jwtPc = "idle"

TlsIdle ==
    /\ files = Nil /\ hostname = Nil /\ clock = 0
    /\ tlsService = Nil /\ tlsResults = <<>> /\ generations = <<>>

MainIdle ==
    /\ tlsEnabled = FALSE /\ mainPc = "idle" /\ httpPc = "idle" /\ httpsPc = "idle"
    /\ certEnv = Nil /\ served = 0

EchoIdle == request = Nil /\ response = Nil /\ echoPc = "idle"

ReadyIdle == delayEnv = <<>> /\ delaySeconds = Nil /\ uptime = Nil /\ readiness = Nil

InitBody ==
    /\ \E in \in BodyInputs :
          /\ bodyBytes = in[1]
          /\ contentType = in[2]
          /\ maxBodySize = in[3]
    /\ bodyInfo = Nil
    /\ bodyPc = "call"
    /\ JwtIdle /\ TlsIdle /\ MainIdle /\ EchoIdle /\ ReadyIdle

ParseBodyCall ==
    /\ bodyPc = "call"
    /\ bodyInfo' = ParseBody(bodyBytes, contentType, maxBodySize)
    /\ bodyPc' = "done"
    /\ UNCHANGED <<bodyBytes, contentType, maxBodySize>>
    /\ UNCHANGED <<jwtVars, tlsVars, mainVars, echoVars, readyVars>>

NextBody == ParseBodyCall

SpecBody == InitBody /\ [][NextBody]_vars

(***************************************************************************)
(* Specification of the token extractor: the service is made from          *)
(* JWT_HEADER_NAMES, then called once on a header map from JwtInputs.      *)
(***************************************************************************)
BodyIdle ==
    bodyBytes = <<>> /\ contentType = <<>> /\ maxBodySize = DefaultMaxBodySize
    /\ bodyInfo = Nil /\ bodyPc = "idle"

InitJWT ==
    /\ \E in \in JwtInputs :
          /\ headers = in[1]
          /\ headerNames = NewJWTService(in[2])
    /\ jwtInfoMap = Nil
    /\ jwtPc = "call"
    /\ BodyIdle /\ TlsIdle /\ MainIdle /\ EchoIdle /\ ReadyIdle

ExtractCall ==
    /\ jwtPc = "call"
    /\ jwtInfoMap' = ExtractAndDecodeJWTs(headers, headerNames)
    /\ jwtPc' = "done"
    /\ UNCHANGED <<headers, headerNames>>
    /\ UNCHANGED <<bodyVars, tlsVars, mainVars, echoVars, readyVars>>

NextJWT == ExtractCall

SpecJWT == InitJWT /\ [][NextJWT]_vars

(***************************************************************************)
(* Properties of ParseBody, checked under SpecBody                         *)
(***************************************************************************)
\* ParseBody has returned
Returned == bodyPc = "done"

\* the first maxBodySize bytes of the body: the body as capped
CappedBody ==
    IF Len(bodyBytes) > maxBodySize THEN SubSeq(bodyBytes, 1, maxBodySize) ELSE bodyBytes

\* the bytes below 0x20 other than newline, carriage return and tab
ControlBytes == (0..31) \ {9, 10, 13}

\* the indices of b that hold a control byte
ControlIndices(b) == {i \in 1..Len(b) : b[i] \in ControlBytes}

\* b contains a NUL byte, is not valid UTF-8, or has more than 30% control bytes
BinaryByContent(b) ==
    \/ \E i \in 1..Len(b) : b[i] = 0
    \/ ~utf8Valid(b)
    \/ 10 * Cardinality(ControlIndices(b)) > 3 * Len(b)

\* c is a string of base64 text
IsBase64Text(c) ==
    /\ c.t = "string"
    /\ Len(c.v) % 4 = 0
    /\ \A i \in 1..Len(c.v) : isBase64Char(c.v[i]) \/ c.v[i] = 61

\* C1: for a body longer than the cap, ParseBody returns a descriptor with
\* truncated = true, and its content (and its binary flag) is what ParseBody
\* makes of the first cap bytes alone: the bytes beyond the cap do not
\* influence it.
C1_TruncatedContentFromPrefix ==
    (Returned /\ Len(bodyBytes) > maxBodySize) =>
        /\ bodyInfo.t = "BodyInfo"
        /\ bodyInfo.Truncated
        /\ bodyInfo.Content = ParseBody(CappedBody, contentType, maxBodySize).Content
        /\ bodyInfo.IsBinary = ParseBody(CappedBody, contentType, maxBodySize).IsBinary

\* C1 witness: a body with a NUL byte beyond the cap was parsed, and the
\* descriptor is truncated and not binary.
C1_Witness ==
    /\ Returned
    /\ Len(bodyBytes) > maxBodySize
    /\ \E i \in (maxBodySize + 1)..Len(bodyBytes) : bodyBytes[i] = 0
    /\ bodyInfo.t = "BodyInfo"
    /\ bodyInfo.Truncated
    /\ ~bodyInfo.IsBinary

\* C2: for every non-empty body and content type, the descriptor's size is
\* the length of the original body, truncated or not.
C2_SizeIsOriginalLength ==
    (Returned /\ Len(bodyBytes) > 0) =>
        bodyInfo.t = "BodyInfo" /\ bodyInfo.Size = Len(bodyBytes)

\* C2 witness: a truncated descriptor whose size is above the cap.
C2_Witness ==
    /\ Returned
    /\ bodyInfo.t = "BodyInfo"
    /\ bodyInfo.Truncated
    /\ bodyInfo.Size > maxBodySize
    /\ bodyInfo.Size = Len(bodyBytes)

\* C3, as stated: every non-empty body that contains a NUL byte, is not valid
\* UTF-8 or has more than 30% control bytes gives isBinary = true with base64
\* text as content, and no type-specific parser ran.
C3_Original ==
    (Returned /\ Len(bodyBytes) > 0 /\ BinaryByContent(bodyBytes)) =>
        /\ bodyInfo.t = "BodyInfo"
        /\ bodyInfo.IsBinary
        /\ IsBase64Text(bodyInfo.Content)
        /\ bodyInfo.parser = "none"

\* C3, amended: every non-empty body whose first cap bytes contain a NUL
\* byte, are not valid UTF-8 or have more than 30% control bytes gives
\* isBinary = true with base64 text as content, whatever the content type,
\* and no type-specific parser ran.
C3_BinaryWithinCap ==
    (Returned /\ Len(bodyBytes) > 0 /\ BinaryByContent(CappedBody)) =>
        /\ bodyInfo.t = "BodyInfo"
        /\ bodyInfo.IsBinary
        /\ IsBase64Text(bodyInfo.Content)
        /\ bodyInfo.parser = "none"

\* C3 witness: a body with a NUL byte within the cap, declared as JSON with a
\* charset, came back binary with no parser run.
C3_Witness ==
    /\ Returned
    /\ contentType = CT_JsonCharset
    /\ \E i \in 1..Len(CappedBody) : CappedBody[i] = 0
    /\ bodyInfo.t = "BodyInfo"
    /\ bodyInfo.IsBinary
    /\ bodyInfo.parser = "none"

\* C4: in every descriptor, isBinary = true implies that the content is a
\* base64 string that decodes to the classified bytes (the body as capped)
\* and that no parser produced it.
C4_BinaryImpliesBase64 ==
    (Returned /\ bodyInfo.t = "BodyInfo" /\ bodyInfo.IsBinary) =>
        /\ IsBase64Text(bodyInfo.Content)
        /\ ~DecodeString(bodyInfo.Content.v).err
        /\ DecodeString(bodyInfo.Content.v).v = CappedBody
        /\ bodyInfo.parser = "none"

\* C4 witness: a truncated body whose first cap bytes are not valid UTF-8,
\* declared as text, came back as the base64 of those bytes.
C4_Witness ==
    /\ Returned
    /\ contentType = CT_Text
    /\ Len(bodyBytes) > maxBodySize
    /\ ~utf8Valid(CappedBody)
    /\ bodyInfo.t = "BodyInfo"
    /\ bodyInfo.IsBinary
    /\ DecodeString(bodyInfo.Content.v).v = CappedBody

\* C5: the classifier, applied by ParseBody to the non-empty body as capped,
\* says binary exactly when the bytes contain a NUL byte, are not valid UTF-8
\* or have strictly more than 30% control bytes.
C5_ClassifierExact ==
    (Returned /\ Len(bodyBytes) > 0) =>
        /\ bodyInfo.t = "BodyInfo"
        /\ (bodyInfo.IsBinary <=> BinaryByContent(CappedBody))

\* C5 witness: a body of which exactly 30% of the bytes are control bytes was
\* classified as not binary.
C5_Witness ==
    /\ Returned
    /\ Len(bodyBytes) > 0
    /\ Len(bodyBytes) <= maxBodySize
    /\ 10 * Cardinality(ControlIndices(bodyBytes)) = 3 * Len(bodyBytes)
    /\ bodyInfo.t = "BodyInfo"
    /\ ~bodyInfo.IsBinary

\* C6: ParseBody returns no descriptor exactly when the body is empty; for a
\* non-empty body it returns a descriptor and does not panic.
C6_NilIffEmpty ==
    Returned =>
        IF Len(bodyBytes) = 0 THEN bodyInfo.t = "nil" ELSE bodyInfo.t = "BodyInfo"

\* C6 witness: a non-empty body with a content type that does not parse got a
\* descriptor that carries the content type as given.
C6_Witness ==
    /\ Returned
    /\ Len(bodyBytes) > 0
    /\ ParseMediaType(contentType).err
    /\ bodyInfo.t = "BodyInfo"
    /\ bodyInfo.ContentType = contentType

RECURSIVE StreamError(_, _, _, _)

\* reading the part np and the parts after it meets an error
StreamErrorFrom(np, rp, boundary) ==
    rp.failed \/ StreamError(rp.rest, boundary, np.nl, np.partsRead)

StreamErrorAt(np, boundary) ==
    IF np.kind = "err" THEN TRUE
    ELSE IF np.kind = "eof" THEN FALSE
    ELSE StreamErrorFrom(np, readPart(np.rest, boundary, np.nl, 0, FALSE, <<>>), boundary)

\* the multipart reader, reading the parts of buf one after the other,
\* meets an error other than the end of the stream
StreamError(buf, boundary, nl, partsRead) ==
    StreamErrorAt(NextPart(buf, boundary, nl, partsRead, FALSE), boundary)

\* the boundary parameter of the content type
Boundary == ParseMediaType(contentType).params[<<98, 111, 117, 110, 100, 97, 114, 121>>]

\* parseMultipartForm was called with a boundary
MultipartParsed ==
    /\ Returned /\ bodyInfo.t = "BodyInfo" /\ bodyInfo.parser = "parseMultipartForm"
    /\ <<98, 111, 117, 110, 100, 97, 114, 121>> \in DOMAIN ParseMediaType(contentType).params

MediaTypeOf(ct) ==
    ToLower(TrimSpace(IF IndexByte(ct, 59) = 0 THEN ct ELSE SubSeq(ct, 1, IndexByte(ct, 59) - 1)))

\* ct has a boundary parameter
NamesBoundary(ct) == Index(ToLower(ct), <<98, 111, 117, 110, 100, 97, 114, 121>>) > 0

\* C26: a content-type header that carries the same media type as the one
\* given, letter case apart, and like it has no boundary parameter selects
\* the same parser for the same body
C26_DispatchOnMediaTypeOnly ==
    (Returned /\ bodyInfo.t = "BodyInfo" /\ ~NamesBoundary(contentType)) =>
        \A ct \in ContentTypes :
            (MediaTypeOf(ct) = MediaTypeOf(contentType) /\ ~NamesBoundary(ct)) =>
                ParseBody(bodyBytes, ct, maxBodySize).parser = bodyInfo.parser

\* C30: a body that is valid UTF-8 and has no NUL byte and no control
\* byte is not reported as binary, be it cut to the cap or not
C30_TextNeverBinary ==
    (Returned /\ Len(bodyBytes) > 0 /\ utf8Valid(bodyBytes)
        /\ \A i \in 1..Len(bodyBytes) : bodyBytes[i] # 0 /\ bodyBytes[i] \notin ControlBytes) =>
        (bodyInfo.t = "BodyInfo" /\ ~bodyInfo.IsBinary)

(***************************************************************************)
(* Properties of ExtractAndDecodeJWTs, checked under SpecJWT               *)
(***************************************************************************)
\* the extractor has returned
Extracted == jwtPc = "done"

\* the configured header names
ConfiguredNames == {headerNames[i] : i \in 1..Len(headerNames)}

\* the configured names that have an entry in the returned map
EmittedNames == DOMAIN jwtInfoMap.v

\* the token value the extractor takes for the configured name n: the header
\* value it finds, without a Bearer prefix
TokenFor(n) == stripBearer(lookupToken(headers, n))

\* the indices of the dots of a token
Dots(tok) == {i \in 1..Len(tok) : tok[i] = 46}

\* splitting tok on '.' gives exactly 3 segments
ThreeSegments(tok) == Cardinality(Dots(tok)) = 2

\* the first, second and third of the 3 segments of tok
FirstSegment(tok) == SubSeq(tok, 1, (CHOOSE i \in Dots(tok) : \A j \in Dots(tok) : i <= j) - 1)
ThirdSegment(tok) ==
    SubSeq(tok, (CHOOSE i \in Dots(tok) : \A j \in Dots(tok) : i >= j) + 1, Len(tok))
SecondSegment(tok) ==
    SubSeq(tok, Len(FirstSegment(tok)) + 2, Len(tok) - Len(ThirdSegment(tok)) - 1)

\* the segment base64url-decodes to a JSON object
DecodesToObject(seg) == decodeBase64URL(seg).ok /\ decodeBase64URL(seg).v.t = "object"

\* the token passes validation: 3 segments, the first two decode to objects
Validates(tok) ==
    /\ ThreeSegments(tok)
    /\ DecodesToObject(FirstSegment(tok))
    /\ DecodesToObject(SecondSegment(tok))

\* C7, as stated: a descriptor is emitted only if the first and the second
\* segment of the value decode to JSON objects, and every emitted descriptor
\* has both header and payload populated with objects.
C7_BothSegmentsObjects ==
    Extracted =>
        \A n \in EmittedNames :
            /\ ThreeSegments(TokenFor(n))
            /\ DecodesToObject(FirstSegment(TokenFor(n)))
            /\ DecodesToObject(SecondSegment(TokenFor(n)))
            /\ jwtInfoMap.v[n].Header.t = "object"
            /\ jwtInfoMap.v[n].Payload.t = "object"

\* C8, as stated: a value yields a descriptor only if it splits on '.' into
\* exactly 3 segments and all three are non-empty.
C8_Original ==
    Extracted =>
        \A n \in EmittedNames :
            /\ ThreeSegments(TokenFor(n))
            /\ FirstSegment(TokenFor(n)) # <<>>
            /\ SecondSegment(TokenFor(n)) # <<>>
            /\ ThirdSegment(TokenFor(n)) # <<>>

\* C8, amended: a value yields a descriptor only if it splits on '.' into
\* exactly 3 segments of which the first two are non-empty (the third may be
\* empty); every value with a different segment count is rejected.
C8_ThreeSegmentsFirstTwoNonEmpty ==
    Extracted =>
        \A n \in EmittedNames :
            /\ ThreeSegments(TokenFor(n))
            /\ FirstSegment(TokenFor(n)) # <<>>
            /\ SecondSegment(TokenFor(n)) # <<>>

\* C8 witness: a value of 3 segments with an empty third segment gave a
\* descriptor.
C8_Witness ==
    /\ Extracted
    /\ \E n \in EmittedNames :
          /\ ThreeSegments(TokenFor(n))
          /\ FirstSegment(TokenFor(n)) # <<>>
          /\ ThirdSegment(TokenFor(n)) = <<>>

\* C9, as stated: the returned map has an entry for a configured header name
\* exactly when that header's value passes validation, and the map is never
\* nil.
C9_EntryIffValidates ==
    Extracted =>
        /\ jwtInfoMap.t = "map"
        /\ \A n \in ConfiguredNames : n \in EmittedNames <=> Validates(TokenFor(n))

\* C10, as stated: a valid token stored under a key that equals a configured
\* name up to letter case (no other key does) is found and decoded.
C10_CaseInsensitiveMatch ==
    Extracted =>
        \A n \in ConfiguredNames : \A k \in DOMAIN headers :
            ( /\ ToLower(k) = ToLower(n)
              /\ \A k2 \in DOMAIN headers : ToLower(k2) = ToLower(n) => k2 = k
              /\ Validates(stripBearer(headers[k])) )
            => n \in EmittedNames

\* the header value found for the configured name n
ValueFor(n) == lookupToken(headers, n)

\* the descriptor emitted for the configured name n, Nil if there is none
EntryFor(n) == IF n \in EmittedNames THEN jwtInfoMap.v[n] ELSE Nil

\* v starts with "Bearer " in some letter case
HasBearerPrefix(v) ==
    /\ Len(v) >= 7
    /\ \A i \in 1..6 : ToLowerByte(v[i]) = <<98, 101, 97, 114, 101, 114>>[i]
    /\ v[7] = 32

\* v without its first 7 bytes and without white space at either end
BareToken(v) == TrimSpace(SubSeq(v, 8, Len(v)))

\* C11: a header value that starts with "Bearer " in any letter case gives
\* exactly what decoding the bare token gives, the bare token being the value
\* without the prefix and without the white space around the rest.
C11_BearerPrefixStripped ==
    Extracted =>
        \A n \in ConfiguredNames :
            HasBearerPrefix(ValueFor(n)) => EntryFor(n) = decodeJWT(BareToken(ValueFor(n)))

\* C11 witness: a value with the prefix in another letter case and extra
\* white space gave a descriptor of the bare token.
C11_Witness ==
    /\ Extracted
    /\ \E n \in ConfiguredNames :
          /\ HasBearerPrefix(ValueFor(n))
          /\ ValueFor(n)[1] = 98
          /\ ValueFor(n)[8] = 32
          /\ n \in EmittedNames
          /\ jwtInfoMap.v[n].RawToken = BareToken(ValueFor(n))

RECURSIVE Chars(_, _)
\* the characters of the UTF-8 text s from index i on, each as its bytes
Chars(s, i) ==
    IF i > Len(s) THEN <<>>
    ELSE IF utf8Width(s[i]) <= 1 THEN <<SubSeq(s, i, i)>> \o Chars(s, i + 1)
    ELSE <<SubSeq(s, i, i + utf8Width(s[i]) - 1)>> \o Chars(s, i + utf8Width(s[i]))

RECURSIVE Concat(_)
Concat(ss) == IF ss = <<>> THEN <<>> ELSE Head(ss) \o Concat(Tail(ss))

\* cs verbatim if at most 30 long, else its first 10, "..." and its last 10
Displayed(cs) ==
    IF Len(cs) <= 30 THEN Concat(cs)
    ELSE Concat(SubSeq(cs, 1, 10)) \o <<46, 46, 46>> \o Concat(SubSeq(cs, Len(cs) - 9, Len(cs)))

\* the bytes of b, each as a sequence of one byte
Bytes(b) == [i \in 1..Len(b) |-> <<b[i]>>]

\* C12, as stated: the display token is the original header value verbatim
\* when that has at most 30 characters, else its first 10 characters, "..."
\* and its last 10 characters.
C12_Original ==
    Extracted =>
        \A n \in EmittedNames : jwtInfoMap.v[n].RawToken = Displayed(Chars(ValueFor(n), 1))

\* C12, amended: the display token is the token (the header value without a
\* Bearer prefix and the white space around the rest) verbatim when that has
\* at most 30 bytes, else its first 10 bytes, "..." and its last 10 bytes.
C12_DisplayTokenOfBareBytes ==
    Extracted =>
        \A n \in EmittedNames :
            jwtInfoMap.v[n].RawToken =
                Displayed(Bytes(IF HasBearerPrefix(ValueFor(n)) THEN BareToken(ValueFor(n))
                                ELSE ValueFor(n)))

\* C12 witness: a token of more than 30 bytes after a Bearer prefix was cut
\* to 23 bytes.
C12_Witness ==
    /\ Extracted
    /\ \E n \in EmittedNames :
          /\ HasBearerPrefix(ValueFor(n))
          /\ Len(BareToken(ValueFor(n))) > 30
          /\ Len(jwtInfoMap.v[n].RawToken) = 23

\* every token made of two of the objects and a third segment, with the
\* objects it was made of
RoundTripCases ==
    {[h |-> h, p |-> p, token |-> RoundTripToken(h.text, p.text, sig)] :
        h \in RoundTripObjects, p \in RoundTripObjects, sig \in ThirdSegments}

\* the descriptor for the configured name n holds the values of the objects
\* of the case c
DecodedAs(n, c) ==
    /\ n \in EmittedNames
    /\ jwtInfoMap.v[n].Header = c.h.value
    /\ jwtInfoMap.v[n].Payload = c.p.value

\* C13, as stated: for any two JSON objects H and P and any third segment S,
\* the extractor applied to base64url(H).base64url(P).S, as the value of a
\* configured header, gives a descriptor whose header and payload are H and P.
C13_Original ==
    Extracted =>
        \A n \in ConfiguredNames : \A c \in RoundTripCases :
            ValueFor(n) = c.token => DecodedAs(n, c)

\* C13, amended: the same for any two JSON objects whose numbers all fit a
\* 64-bit float.
C13_RoundTripInRange ==
    Extracted =>
        \A n \in ConfiguredNames : \A c \in RoundTripCases :
            (c.h.inRange /\ c.p.inRange /\ ValueFor(n) = c.token) => DecodedAs(n, c)

\* C13 witness: a token made of a nested object, an object whose encoding
\* needs the URL alphabet and a third segment that is not base64 was decoded
\* to these objects.
C13_Witness ==
    /\ Extracted
    /\ \E n \in ConfiguredNames : \E c \in RoundTripCases :
          /\ <<98>> \in DOMAIN c.h.value.v
          /\ <<126>> \in DOMAIN c.p.value.v
          /\ ValueFor(n) = c.token
          /\ ThirdSegment(c.token) = <<195, 169, 32, 195, 169>>
          /\ DecodedAs(n, c)

(***************************************************************************)
(* services.TLSService (src/services/tls.go).  Names inside certificates   *)
(* and PEM block types are written as TLA+ strings: the code applies no    *)
(* byte-level operation to them.  A private key is modelled by a number,   *)
(* its public key by the same number.                                      *)
(***************************************************************************)
MaxKeys == 2
MaxSerial == 1
MaxCalls == 2
MaxTick == 1

\* 365 * 24 * time.Hour, in seconds
validity == 365 * 24 * 3600

defaultHostname == "echo-server"

\* a Go error with its message
Err(msg) == [t |-> "error", msg |-> msg]

\* a template whose validity ends a year after the epoch
templateNotAfterFromEpoch(serialNumber, host, notBefore) ==
    [SerialNumber |-> serialNumber,
     Subject |-> [Organization |-> <<"Echo Server">>, CommonName |-> host],
     NotBefore |-> notBefore,
     NotAfter |-> validity,
     KeyUsage |-> {"KeyEncipherment", "DigitalSignature"},
     ExtKeyUsage |-> <<"ServerAuth">>,
     BasicConstraintsValid |-> TRUE,
     DNSNames |-> <<host, "localhost">>]

\* the x509.Certificate template of generateSelfSignedCertificate
template(serialNumber, host, notBefore) ==
    [SerialNumber |-> serialNumber,
     Subject |-> [Organization |-> <<"Echo Server">>, CommonName |-> host],
     NotBefore |-> notBefore,
     NotAfter |-> notBefore + validity,
     KeyUsage |-> {"KeyEncipherment", "DigitalSignature"},
     ExtKeyUsage |-> <<"ServerAuth">>,
     BasicConstraintsValid |-> TRUE,
     DNSNames |-> <<host, "localhost">>]

\* x509.CreateCertificate, then its DER encoding read back: the template's
\* fields, the parent's subject as issuer, the public key, and the signature
\* named by the key that made it
CreateCertificate(tmpl, parent, pub, priv) ==
    [t |-> "certificate",
     SerialNumber |-> tmpl.SerialNumber,
     Subject |-> tmpl.Subject,
     Issuer |-> parent.Subject,
     NotBefore |-> tmpl.NotBefore,
     NotAfter |-> tmpl.NotAfter,
     KeyUsage |-> tmpl.KeyUsage,
     ExtKeyUsage |-> tmpl.ExtKeyUsage,
     BasicConstraintsValid |-> tmpl.BasicConstraintsValid,
     DNSNames |-> tmpl.DNSNames,
     PublicKey |-> pub,
     SignedBy |-> priv]

MarshalPKCS1PrivateKey(key) == [t |-> "pkcs1", key |-> key]

\* pem.EncodeToMemory of one block
EncodeToMemory(type, bytes) == [t |-> "pem", Type |-> type, Bytes |-> bytes]

\* file contents that are no PEM data
NotPEM == [t |-> "text"]

tlsCertificate(cert, key) == [t |-> "tls.Certificate", Certificate |-> <<cert>>, PrivateKey |-> key]
EmptyCertificate == [t |-> "tls.Certificate", Certificate |-> <<>>, PrivateKey |-> Nil]

\* tls.X509KeyPair on the two PEM inputs: the first must hold a CERTIFICATE
\* block that parses, the second a private key block that parses, and the
\* key must be the one of the certificate's public key
X509KeyPair(certPEMBlock, keyPEMBlock) ==
    IF certPEMBlock.t # "pem" \/ certPEMBlock.Type # "CERTIFICATE"
    THEN [cert |-> EmptyCertificate, err |-> Err("tls: failed to find any PEM data in certificate input")]
    ELSE IF keyPEMBlock.t # "pem" \/ keyPEMBlock.Type # "RSA PRIVATE KEY"
    THEN [cert |-> EmptyCertificate, err |-> Err("tls: failed to find any PEM data in key input")]
    ELSE IF certPEMBlock.Bytes.t # "certificate"
    THEN [cert |-> EmptyCertificate, err |-> Err("x509: malformed certificate")]
    ELSE IF keyPEMBlock.Bytes.t # "pkcs1"
    THEN [cert |-> EmptyCertificate, err |-> Err("tls: failed to parse private key")]
    ELSE IF certPEMBlock.Bytes.PublicKey # keyPEMBlock.Bytes.key
    THEN [cert |-> EmptyCertificate, err |-> Err("tls: private key does not match public key")]
    ELSE [cert |-> tlsCertificate(certPEMBlock.Bytes, keyPEMBlock.Bytes.key), err |-> Nil]

\* os.Stat(name) returned no error
statOk(fs, name) == fs[name] # Nil

\* tls.LoadX509KeyPair: both files are read, then X509KeyPair
LoadX509KeyPair(fs, certFile, keyFile) ==
    IF fs[certFile] = Nil \/ fs[keyFile] = Nil
    THEN [cert |-> EmptyCertificate, err |-> Err("open: no such file or directory")]
    ELSE X509KeyPair(fs[certFile], fs[keyFile])

NewTLSService == [certPEM |-> Nil, keyPEM |-> Nil]

\* what a call returns and leaves behind: the certificate, the error, the
\* service's fields, and the certificate x509.CreateCertificate made (Nil
\* when none was made)
tlsResult(cert, err, service, made) ==
    [cert |-> cert, err |-> err, service |-> service, made |-> made]

generateFrom(t, certDER, privateKey) ==
    tlsResult(X509KeyPair(EncodeToMemory("CERTIFICATE", certDER),
                          EncodeToMemory("RSA PRIVATE KEY", MarshalPKCS1PrivateKey(privateKey))).cert,
              X509KeyPair(EncodeToMemory("CERTIFICATE", certDER),
                          EncodeToMemory("RSA PRIVATE KEY", MarshalPKCS1PrivateKey(privateKey))).err,
              [certPEM |-> EncodeToMemory("CERTIFICATE", certDER),
               keyPEM |-> EncodeToMemory("RSA PRIVATE KEY", MarshalPKCS1PrivateKey(privateKey))],
              certDER)

\* the host name generateSelfSignedCertificate uses
hostnameOrDefault(host) == IF host.err \/ host.name = "" THEN defaultHostname ELSE host.name

\* generateSelfSignedCertificate: rnd is what crypto/rand gives this call
\* (the key and the serial number), host what os.Hostname returns, now
\* what time.Now returns.  The build's Go (1.25, src/Dockerfile) has a
\* crypto/rand that never returns an error, and a template as this one
\* always makes a certificate: the three error returns before the PEM
\* encoding are never taken.
generateSelfSignedCertificate(t, rnd, host, now) ==
    generateFrom(t,
        CreateCertificate(template(rnd.serial, hostnameOrDefault(host), now),
                          template(rnd.serial, hostnameOrDefault(host), now),
                          rnd.key, rnd.key),
        rnd.key)

loadResult(t, fs, certFile, keyFile, loaded) ==
    IF loaded.err # Nil
    THEN tlsResult(EmptyCertificate, Err("failed to load certificate files"), t, Nil)
    ELSE tlsResult(loaded.cert, Nil, [certPEM |-> fs[certFile], keyPEM |-> fs[keyFile]], Nil)

\* GetOrGenerateCertificate that generates when the files do not load
GetOrGenerateCertificateFallback(t, fs, certFile, keyFile, rnd, host, now) ==
    IF statOk(fs, certFile) /\ statOk(fs, keyFile)
         /\ LoadX509KeyPair(fs, certFile, keyFile).err = Nil
    THEN loadResult(t, fs, certFile, keyFile, LoadX509KeyPair(fs, certFile, keyFile))
    ELSE generateSelfSignedCertificate(t, rnd, host, now)

\* GetOrGenerateCertificate that generates only when both files are absent
GetOrGenerateCertificateEither(t, fs, certFile, keyFile, rnd, host, now) ==
    IF statOk(fs, certFile) \/ statOk(fs, keyFile)
    THEN loadResult(t, fs, certFile, keyFile, LoadX509KeyPair(fs, certFile, keyFile))
    ELSE generateSelfSignedCertificate(t, rnd, host, now)

GetOrGenerateCertificate(t, fs, certFile, keyFile, rnd, host, now) ==
    IF statOk(fs, certFile) /\ statOk(fs, keyFile)
    THEN loadResult(t, fs, certFile, keyFile, LoadX509KeyPair(fs, certFile, keyFile))
    ELSE generateSelfSignedCertificate(t, rnd, host, now)

\* services.ParseCertificate
ParseCertificate(cert) ==
    IF Len(cert.Certificate) = 0 THEN [cert |-> Nil, err |-> Err("no certificate found")]
    ELSE [cert |-> cert.Certificate[1], err |-> Nil]

(***************************************************************************)
(* Specification of the TLSService: a service is made and                  *)
(* GetOrGenerateCertificate called on it up to MaxCalls times, with the    *)
(* same two files.                                                         *)
(***************************************************************************)
Keys == 1 .. MaxKeys
Serials == 0 .. MaxSerial
Randoms == {[key |-> k, serial |-> n] : k \in Keys, n \in Serials}

Hostnames ==
    {[err |-> FALSE, name |-> "pod-1"], [err |-> FALSE, name |-> ""], [err |-> TRUE, name |-> ""]}

\* a certificate and a key an operator installed beforehand
InstalledCertificate(k) ==
    CreateCertificate(template(0, "echo.example.com", 0), template(0, "echo.example.com", 0), k, k)
CertificatePEM(k) == EncodeToMemory("CERTIFICATE", InstalledCertificate(k))
KeyPEM(k) == EncodeToMemory("RSA PRIVATE KEY", MarshalPKCS1PrivateKey(k))

CertFileContents == {Nil, NotPEM, CertificatePEM(1), KeyPEM(1)}
KeyFileContents == {Nil, NotPEM, CertificatePEM(1)} \cup {KeyPEM(k) : k \in Keys}
FileSystems == {[certFile |-> c, keyFile |-> k] : c \in CertFileContents, k \in KeyFileContents}

InitTLS ==
    /\ files \in FileSystems
    /\ hostname \in Hostnames
    /\ clock = 0
    /\ tlsService = NewTLSService
    /\ tlsResults = <<>>
    /\ generations = <<>>
    /\ BodyIdle /\ JwtIdle /\ MainIdle /\ EchoIdle /\ ReadyIdle

\* the model's record of a call: what it returned
returned(r) == [cert |-> r.cert, err |-> r.err]
generated(made, r) == IF r.made = Nil THEN made ELSE Append(made, r.made)

GetOrGenerateCall ==
    /\ Len(tlsResults) < MaxCalls
    /\ \E rnd \in Randoms, dt \in 0 .. MaxTick :
          /\ clock' = clock + dt
          /\ tlsResults' = Append(tlsResults, returned(
                 GetOrGenerateCertificate(tlsService, files, "certFile", "keyFile",
                                          rnd, hostname, clock + dt)))
          /\ generations' = generated(generations,
                 GetOrGenerateCertificate(tlsService, files, "certFile", "keyFile",
                                          rnd, hostname, clock + dt))
          /\ tlsService' =
                 GetOrGenerateCertificate(tlsService, files, "certFile", "keyFile",
                                          rnd, hostname, clock + dt).service
    /\ UNCHANGED <<files, hostname>>
    /\ UNCHANGED <<bodyVars, jwtVars, mainVars, echoVars, readyVars>>

NextTLS == GetOrGenerateCall

SpecTLS == InitTLS /\ [][NextTLS]_vars

(***************************************************************************)
(* Properties of the TLSService, checked under SpecTLS                     *)
(***************************************************************************)
CertPresent == files.certFile # Nil
KeyPresent == files.keyFile # Nil

\* the two files hold a certificate and the private key of its public key
ValidPair ==
    /\ CertPresent /\ files.certFile.t = "pem" /\ files.certFile.Type = "CERTIFICATE"
    /\ KeyPresent /\ files.keyFile.t = "pem" /\ files.keyFile.Type = "RSA PRIVATE KEY"
    /\ files.certFile.Bytes.PublicKey = files.keyFile.Bytes.key

Called == Len(tlsResults) > 0

\* C14: when both files exist and are no valid certificate/key pair, every
\* call of GetOrGenerateCertificate returns an error and no certificate is
\* generated
C14_MalformedPairIsError ==
    (CertPresent /\ KeyPresent /\ ~ValidPair) =>
        /\ \A i \in DOMAIN tlsResults :
              tlsResults[i].err # Nil /\ tlsResults[i].cert = EmptyCertificate
        /\ generations = <<>>

C14_Witness ==
    /\ Called /\ CertPresent /\ KeyPresent /\ ~ValidPair
    /\ files.certFile = CertificatePEM(1) /\ files.keyFile = KeyPEM(2)
    /\ tlsResults[1].err # Nil

FileAbsent == ~CertPresent \/ ~KeyPresent

\* the certificate the two files hold
LoadedCertificate == tlsCertificate(files.certFile.Bytes, files.keyFile.Bytes.key)

\* C16: a call of GetOrGenerateCertificate generates a self-signed
\* certificate, and returns it, exactly when at least one of the two files
\* is absent; when both are present and a valid pair it returns the
\* certificate loaded from the files and nothing is generated
C16_GenerateIffFileAbsent ==
    /\ Len(generations) = (IF FileAbsent THEN Len(tlsResults) ELSE 0)
    /\ FileAbsent =>
          \A i \in DOMAIN tlsResults :
              /\ tlsResults[i].err = Nil
              /\ tlsResults[i].cert.Certificate = <<generations[i]>>
    /\ ValidPair =>
          \A i \in DOMAIN tlsResults :
              tlsResults[i] = [cert |-> LoadedCertificate, err |-> Nil]

C16_Witness ==
    /\ Called /\ CertPresent /\ ~KeyPresent
    /\ Len(generations) = Len(tlsResults)
    /\ tlsResults[1].cert.Certificate = <<generations[1]>>

\* the certificate a with the serial number of b
WithSerialOf(a, b) == [a EXCEPT !.SerialNumber = b.SerialNumber]

\* the certificate a with the serial number, the key and signature, and the
\* validity of b
WithSerialKeyValidityOf(a, b) ==
    [a EXCEPT !.SerialNumber = b.SerialNumber,
              !.PublicKey = b.PublicKey, !.SignedBy = b.SignedBy,
              !.NotBefore = b.NotBefore, !.NotAfter = b.NotAfter]

Successive == {i \in DOMAIN generations : i + 1 \in DOMAIN generations}

\* C18 as stated: two successive generations give certificates that are the
\* same but for the serial number
C18_Original ==
    \A i \in Successive : WithSerialOf(generations[i], generations[i + 1]) = generations[i + 1]

\* C18: two successive generations give certificates that are the same but
\* for the serial number, the key pair with the signature made by it, and
\* the validity, whose end is 365 days after its start in both; each is
\* signed with the key whose public key it carries
C18_DifferInSerialKeyValidity ==
    \A i \in Successive :
        /\ WithSerialKeyValidityOf(generations[i], generations[i + 1]) = generations[i + 1]
        /\ generations[i].NotAfter = generations[i].NotBefore + 365 * 24 * 3600
        /\ generations[i + 1].NotAfter = generations[i + 1].NotBefore + 365 * 24 * 3600
        /\ generations[i].SignedBy = generations[i].PublicKey
        /\ generations[i + 1].SignedBy = generations[i + 1].PublicKey

C18_Witness ==
    /\ Len(generations) >= 2
    /\ generations[1].PublicKey # generations[2].PublicKey
    /\ generations[1].NotBefore < generations[2].NotBefore
    /\ generations[1].SerialNumber # generations[2].SerialNumber

(***************************************************************************)
(* main and startDualStackServers: the process from the reading of         *)
(* TLS_ENABLED on.  With TLS off main blocks in app.Listen.  With TLS on   *)
(* the certificate is provisioned, its metadata stored in the environment, *)
(* and two goroutines started, one for each listener; main waits for both. *)
(***************************************************************************)
MaxRequests == 2

\* the _TLS_CERT_* variables before anything is stored
EmptyEnv ==
    [Subject |-> Nil, Issuer |-> Nil, NotBefore |-> Nil, NotAfter |-> Nil,
     Serial |-> Nil, DNSNames |-> Nil]

\* the value of an environment variable: the string made of v by
\* String, Format(time.RFC3339) or strings.Join
envString(v) == [t |-> "string", of |-> v]

\* the environment env after the writes for the certificate x509Cert
setCertificateEnv(env, x509Cert) ==
    [Subject |-> envString(x509Cert.Subject),
     Issuer |-> envString(x509Cert.Issuer),
     NotBefore |-> envString(x509Cert.NotBefore),
     NotAfter |-> envString(x509Cert.NotAfter),
     Serial |-> envString(x509Cert.SerialNumber),
     DNSNames |-> IF Len(x509Cert.DNSNames) > 0 THEN envString(x509Cert.DNSNames)
                  ELSE env.DNSNames]

\* storeCertificateInfo: the environment after it
storeCertificateInfo(env, cert) ==
    IF ParseCertificate(cert).err # Nil THEN env
    ELSE setCertificateEnv(env, ParseCertificate(cert).cert)

\* a main that goes on when GetOrGenerateCertificate returned an error
mainStepIgnoreError(pc, err) ==
    IF pc = "main" THEN "store"
    ELSE IF pc = "store" THEN "spawn"
    ELSE "wait"

\* a main that starts the goroutines before it stores the metadata
mainStepSpawnFirst(pc, err) ==
    IF pc = "main" THEN (IF err # Nil THEN "exited" ELSE "spawn")
    ELSE IF pc = "spawn" THEN "store"
    ELSE "wait"

\* where startDualStackServers goes from pc: from "main", with the error of
\* GetOrGenerateCertificate, to log.Fatalf or to storeCertificateInfo, then
\* to the go statements, then to wg.Wait
mainStep(pc, err) ==
    IF pc = "main" THEN (IF err # Nil THEN "exited" ELSE "store")
    ELSE IF pc = "store" THEN "spawn"
    ELSE "wait"

InitMain ==
    /\ files \in FileSystems
    /\ hostname \in Hostnames
    /\ clock = 0
    /\ tlsService = NewTLSService
    /\ tlsResults = <<>>
    /\ generations = <<>>
    /\ tlsEnabled \in BOOLEAN
    /\ mainPc = "main"
    /\ httpPc = "off"
    /\ httpsPc = "off"
    /\ certEnv = EmptyEnv
    /\ served = 0
    /\ BodyIdle /\ JwtIdle /\ EchoIdle /\ ReadyIdle

\* main with TLS off: app.Listen, and log.Fatalf when it fails
StartHTTPOnly ==
    /\ mainPc = "main" /\ ~tlsEnabled
    /\ \E ok \in BOOLEAN :
          /\ httpPc' = IF ok THEN "accepting" ELSE "done"
          /\ mainPc' = IF ok THEN "listen" ELSE "exited"
    /\ UNCHANGED <<tlsEnabled, httpsPc, certEnv, served>>
    /\ UNCHANGED <<bodyVars, jwtVars, tlsVars, echoVars, readyVars>>

\* startDualStackServers up to the check of the error
Provision ==
    /\ mainPc = "main" /\ tlsEnabled
    /\ \E rnd \in Randoms, dt \in 0 .. MaxTick :
          /\ clock' = clock + dt
          /\ tlsResults' = Append(tlsResults, returned(
                 GetOrGenerateCertificate(NewTLSService, files, "certFile", "keyFile",
                                          rnd, hostname, clock + dt)))
          /\ generations' = generated(generations,
                 GetOrGenerateCertificate(NewTLSService, files, "certFile", "keyFile",
                                          rnd, hostname, clock + dt))
          /\ tlsService' =
                 GetOrGenerateCertificate(NewTLSService, files, "certFile", "keyFile",
                                          rnd, hostname, clock + dt).service
          /\ mainPc' = mainStep(mainPc,
                 GetOrGenerateCertificate(NewTLSService, files, "certFile", "keyFile",
                                          rnd, hostname, clock + dt).err)
    /\ UNCHANGED <<files, hostname>>
    /\ UNCHANGED <<tlsEnabled, httpPc, httpsPc, certEnv, served>>
    /\ UNCHANGED <<bodyVars, jwtVars, echoVars, readyVars>>

StoreCertificateInfo ==
    /\ mainPc = "store"
    /\ certEnv' = storeCertificateInfo(certEnv, tlsResults[Len(tlsResults)].cert)
    /\ mainPc' = mainStep(mainPc, Nil)
    /\ UNCHANGED <<tlsEnabled, httpPc, httpsPc, served>>
    /\ UNCHANGED <<bodyVars, jwtVars, tlsVars, echoVars, readyVars>>

\* the two go statements
Spawn ==
    /\ mainPc = "spawn"
    /\ httpPc' = "starting"
    /\ httpsPc' = "starting"
    /\ mainPc' = mainStep(mainPc, Nil)
    /\ UNCHANGED <<tlsEnabled, certEnv, served>>
    /\ UNCHANGED <<bodyVars, jwtVars, tlsVars, echoVars, readyVars>>

\* the first goroutine: app.Listen binds the port and accepts, or fails
HTTPListen ==
    /\ httpPc = "starting"
    /\ \E ok \in BOOLEAN : httpPc' = IF ok THEN "accepting" ELSE "done"
    /\ UNCHANGED <<tlsEnabled, mainPc, httpsPc, certEnv, served>>
    /\ UNCHANGED <<bodyVars, jwtVars, tlsVars, echoVars, readyVars>>

\* the second goroutine: tls.Listen and app.Listener, or tls.Listen fails
HTTPSListen ==
    /\ httpsPc = "starting"
    /\ \E ok \in BOOLEAN : httpsPc' = IF ok THEN "accepting" ELSE "done"
    /\ UNCHANGED <<tlsEnabled, mainPc, httpPc, certEnv, served>>
    /\ UNCHANGED <<bodyVars, jwtVars, tlsVars, echoVars, readyVars>>

\* a request comes in on a listener that accepts and is answered
ServeRequest ==
    /\ httpPc = "accepting" \/ httpsPc = "accepting"
    /\ served < MaxRequests
    /\ served' = served + 1
    /\ UNCHANGED <<tlsEnabled, mainPc, httpPc, httpsPc, certEnv>>
    /\ UNCHANGED <<bodyVars, jwtVars, tlsVars, echoVars, readyVars>>

\* wg.Wait returns when both goroutines are done, and main with it
WaitReturns ==
    /\ mainPc = "wait" /\ httpPc = "done" /\ httpsPc = "done"
    /\ mainPc' = "exited"
    /\ UNCHANGED <<tlsEnabled, httpPc, httpsPc, certEnv, served>>
    /\ UNCHANGED <<bodyVars, jwtVars, tlsVars, echoVars, readyVars>>

NextMain ==
    \/ StartHTTPOnly
    \/ Provision
    \/ StoreCertificateInfo
    \/ Spawn
    \/ HTTPListen
    \/ HTTPSListen
    \/ ServeRequest
    \/ WaitReturns

SpecMain == InitMain /\ [][NextMain]_vars

(***************************************************************************)
(* Properties of the start of the process, checked under SpecMain          *)
(***************************************************************************)
ProvisioningFailed == Len(tlsResults) > 0 /\ tlsResults[1].err # Nil

\* C15: when GetOrGenerateCertificate returned an error the process has
\* exited, and neither listener was started nor any request served
C15_FailedProvisioningExits ==
    ProvisioningFailed =>
        /\ mainPc = "exited"
        /\ httpsPc = "off" /\ httpPc = "off"
        /\ served = 0

C15_Witness ==
    /\ ProvisioningFailed /\ mainPc = "exited"
    /\ files.certFile = CertificatePEM(1) /\ files.keyFile = NotPEM

Serving == httpPc = "accepting" \/ httpsPc = "accepting" \/ served > 0

\* C17: a step that changes the _TLS_CERT_* variables is taken while no
\* goroutine of a listener exists yet, before and after the step, and no
\* request was served: every write comes before the listeners accept
C17_MetadataWrittenBeforeListening ==
    [][certEnv' # certEnv =>
          /\ httpPc = "off" /\ httpsPc = "off" /\ served = 0
          /\ httpPc' = "off" /\ httpsPc' = "off" /\ served' = 0]_vars

C17_Witness ==
    /\ httpsPc = "accepting" /\ served > 0
    /\ certEnv # EmptyEnv
    /\ certEnv.Serial = envString(ParseCertificate(tlsResults[1].cert).cert.SerialNumber)

\* C29: with TLS enabled, once the goroutine of the HTTPS server is past
\* tls.Listen, the process accepts on the HTTP port only while it accepts
\* on the TLS port as well
C29_HTTPOnlyWithHTTPS ==
    (tlsEnabled /\ httpPc = "accepting" /\ httpsPc # "starting") => httpsPc = "accepting"

(***************************************************************************)
(* handlers.EchoHandler and handlers.EchoHandlerHead (src/handlers/echo.go)*)
(* A request is its method, its headers as the server parsed them (keys in *)
(* the canonical form fasthttp gives them, values without surrounding      *)
(* space) and its body.  The method is written as a TLA+ string.           *)
(***************************************************************************)
MaxStatusLen == 3
MaxListLen == 3
MaxEncodingLen == 3
MaxCookieLen == 3

ToUpperByte(c) == IF c >= 97 /\ c <= 122 THEN c - 32 ELSE c

\* the canonical form of a header key: the first letter and every letter
\* after a '-' in upper case, the others in lower case
normalizeHeaderKey(key) ==
    [i \in 1..Len(key) |->
        IF i = 1 \/ key[i - 1] = 45 THEN ToUpperByte(key[i]) ELSE ToLowerByte(key[i])]

\* c.Get(key): the value of the request header, "" when there is none
Get(req, key) == mapGet(req.headers, normalizeHeaderKey(key))

\* an int at or above intCap is held at intCap: the code compares the
\* result with numbers below it only
intCap == 1000000

RECURSIVE digitsValueCapped(_, _, _)
digitsValueCapped(s, k, acc) ==
    IF k > Len(s) THEN acc
    ELSE digitsValueCapped(s, k + 1,
             IF acc * 10 + (s[k] - 48) >= intCap THEN intCap ELSE acc * 10 + (s[k] - 48))

allDigits(s) == \A i \in 1..Len(s) : isDigit(s[i])

\* the digits of 1<<63 - 1 and of 1<<63
maxInt64Digits == <<57, 50, 50, 51, 51, 55, 50, 48, 51, 54, 56, 53, 52, 55, 55, 53, 56, 48, 55>>
minInt64Digits == <<57, 50, 50, 51, 51, 55, 50, 48, 51, 54, 56, 53, 52, 55, 55, 53, 56, 48, 56>>

\* the digit string ds without its leading zeros
RECURSIVE stripZeros(_)
stripZeros(ds) == IF Len(ds) > 0 /\ ds[1] = 48 THEN stripZeros(Tail(ds)) ELSE ds

\* the number with the digits a is above the one with the digits b, of the
\* same length
RECURSIVE digitsAbove(_, _, _)
digitsAbove(a, b, i) ==
    IF i > Len(a) THEN FALSE
    ELSE IF a[i] # b[i] THEN a[i] > b[i]
    ELSE digitsAbove(a, b, i + 1)

\* the number with the significant digits sig and the sign does not fit an int
intOverflows(sig, neg) ==
    \/ Len(sig) > Len(maxInt64Digits)
    \/ /\ Len(sig) = Len(maxInt64Digits)
       /\ digitsAbove(sig, IF neg THEN minInt64Digits ELSE maxInt64Digits, 1)

atoiResult(err, n) == [err |-> err, n |-> n]

\* the digits after the sign, neg telling a '-' sign
atoiDigits(digits, neg) ==
    IF Len(digits) = 0 \/ ~allDigits(digits) THEN atoiResult(TRUE, 0)
    ELSE IF intOverflows(stripZeros(digits), neg) THEN atoiResult(TRUE, intCap)
    ELSE atoiResult(FALSE, IF neg THEN 0 - digitsValueCapped(digits, 1, 0)
                           ELSE digitsValueCapped(digits, 1, 0))

\* strconv.Atoi: an optional sign, then decimal digits only
Atoi(s) ==
    IF Len(s) = 0 THEN atoiResult(TRUE, 0)
    ELSE IF s[1] = 43 \/ s[1] = 45 THEN atoiDigits(Tail(s), s[1] = 45)
    ELSE atoiDigits(s, FALSE)

StatusOK == 200
minStatusCode == 200
maxStatusCode == 599

H_StatusCode ==
    <<120, 45, 115, 101, 116, 45, 114, 101, 115, 112, 111, 110, 115, 101, 45, 115, 116, 97,
      116, 117, 115, 45, 99, 111, 100, 101>>   \* x-set-response-status-code

\* the status for the header value statusHeader, the upper limit exclusive
statusCodeForExclusive(statusHeader) ==
    IF statusHeader = <<>> THEN StatusOK
    ELSE IF Atoi(statusHeader).err \/ Atoi(statusHeader).n < minStatusCode
              \/ Atoi(statusHeader).n >= maxStatusCode
    THEN StatusOK
    ELSE Atoi(statusHeader).n

statusCodeFor(statusHeader) ==
    IF statusHeader = <<>> THEN StatusOK
    ELSE IF Atoi(statusHeader).err \/ Atoi(statusHeader).n < minStatusCode
              \/ Atoi(statusHeader).n > maxStatusCode
    THEN StatusOK
    ELSE Atoi(statusHeader).n

getCustomStatusCode(req) == statusCodeFor(Get(req, H_StatusCode))

H_Accept == <<65, 99, 99, 101, 112, 116>>                                  \* Accept
H_ContentType == <<67, 111, 110, 116, 101, 110, 116, 45, 84, 121, 112, 101>>   \* Content-Type
TextHTML == <<116, 101, 120, 116, 47, 104, 116, 109, 108>>                 \* text/html

\* strings.Contains
Contains(s, sub) == Index(s, sub) > 0

bodyMethods == {"POST", "PUT", "PATCH", "DELETE"}

buildHeadersMap(req) == req.headers

\* the Body of buildRequestInfo without the test of the method
requestBodyAnyMethod(req, maxSize) ==
    IF Len(req.body) > 0
    THEN ParseBody(req.body, Get(req, H_ContentType), maxSize)
    ELSE Nil

\* the Body of buildRequestInfo: parsed for the four methods when the body is
\* not empty, with the Content-Type header
requestBody(req, maxSize) ==
    IF req.method \in bodyMethods /\ Len(req.body) > 0
    THEN ParseBody(req.body, Get(req, H_ContentType), maxSize)
    ELSE Nil

H_XForwardedFor ==
    <<88, 45, 70, 111, 114, 119, 97, 114, 100, 101, 100, 45, 70, 111, 114>>   \* X-Forwarded-For
H_XRealIP == <<88, 45, 82, 101, 97, 108, 45, 73, 80>>                         \* X-Real-IP

\* getRemoteAddress that looks at X-Real-IP first
getRemoteAddressRealIPFirst(req) ==
    IF Get(req, H_XRealIP) # <<>> THEN Get(req, H_XRealIP)
    ELSE IF Get(req, H_XForwardedFor) # <<>>
    THEN TrimSpace(Split(Get(req, H_XForwardedFor), 44)[1])
    ELSE req.peer

\* getRemoteAddress; req.peer is what c.IP() returns
getRemoteAddress(req) ==
    IF Get(req, H_XForwardedFor) # <<>>
    THEN TrimSpace(Split(Get(req, H_XForwardedFor), 44)[1])
    ELSE IF Get(req, H_XRealIP) # <<>> THEN Get(req, H_XRealIP)
    ELSE req.peer

H_AcceptEncoding ==
    <<65, 99, 99, 101, 112, 116, 45, 69, 110, 99, 111, 100, 105, 110, 103>>   \* Accept-Encoding

CompressionInfo(encodings, responseEncoding, supported) ==
    [AcceptedEncodings |-> encodings, ResponseEncoding |-> responseEncoding,
     Supported |-> supported]

\* the loop of getCompressionInfo over the parts between the commas
encodingsOf(parts) ==
    SelectSeq([i \in 1..Len(parts) |-> TrimSpace(Split(parts[i], 59)[1])],
              LAMBDA encoding : encoding # <<>>)

\* getCompressionInfo that tells a header that is not empty supported
getCompressionInfoAnyHeader(req, contentEncoding) ==
    IF Get(req, H_AcceptEncoding) = <<>> THEN CompressionInfo(<<>>, <<>>, FALSE)
    ELSE CompressionInfo(encodingsOf(Split(Get(req, H_AcceptEncoding), 44)),
                         contentEncoding, TRUE)

\* getCompressionInfo; contentEncoding is the Content-Encoding header of
\* the response at the time of the call
getCompressionInfo(req, contentEncoding) ==
    IF Get(req, H_AcceptEncoding) = <<>> THEN CompressionInfo(<<>>, <<>>, FALSE)
    ELSE CompressionInfo(encodingsOf(Split(Get(req, H_AcceptEncoding), 44)),
                         contentEncoding,
                         Len(encodingsOf(Split(Get(req, H_AcceptEncoding), 44))) > 0)

\* buildRequestInfo; the response has no Content-Encoding header when the
\* handler runs: no middleware sets one before it calls the handler
buildRequestInfo(req, maxSize) ==
    [Method |-> req.method,
     Headers |-> buildHeadersMap(req),
     RemoteAddress |-> getRemoteAddress(req),
     Body |-> requestBody(req, maxSize),
     Compression |-> getCompressionInfo(req, <<>>)]

\* response.JwtTokens: set when the map has an entry
jwtTokensOrNil(jwtTokens) == IF DOMAIN jwtTokens.v # {} THEN jwtTokens ELSE Nil

buildEchoResponse(req, names, maxSize) ==
    [t |-> "EchoResponse",
     Request |-> buildRequestInfo(req, maxSize),
     JwtTokens |-> jwtTokensOrNil(ExtractAndDecodeJWTs(buildHeadersMap(req), names))]

\* c.Render("echo", templateData): the error it returns.  The template is
\* not among the sources; the view is taken to render every snapshot.
Render(name, data) == Nil

\* c.JSON(response): the error it returns; a snapshot is made of strings,
\* booleans, numbers in the range of a float64, lists and maps, which
\* json.Marshal encodes
JSON(data) == Nil

\* what a handler leaves in the response: contentEncoding is its
\* Content-Encoding header, cookies are its Set-Cookie headers
handled(handler, status, view, err, snapshot) ==
    [handler |-> handler, status |-> status, view |-> view, err |-> err,
     snapshot |-> snapshot, contentEncoding |-> <<>>, cookies |-> <<>>]

\* the recover middleware: a panic of the handler is answered with status 500
recovered(handler) == handled(handler, 500, "error", Err("panic"), Nil)

respond(req, status, snapshot) ==
    IF Contains(Get(req, H_Accept), TextHTML)
    THEN handled("EchoHandler", status, "echo", Render("echo", snapshot), snapshot)
    ELSE handled("EchoHandler", status, "json", JSON(snapshot), snapshot)

H_XSetCookie == <<120, 45, 115, 101, 116, 45, 99, 111, 111, 107, 105, 101>>   \* x-set-cookie

Cookie(name, value) ==
    [t |-> "Cookie", Name |-> name, Value |-> value, Domain |-> <<>>, Path |-> <<>>,
     Expires |-> Nil, MaxAge |-> 0, HTTPOnly |-> FALSE, Secure |-> FALSE, SameSite |-> <<>>]

Date_RFC1123 ==
    <<77, 111, 110, 44, 32, 48, 50, 32, 74, 97, 110, 32, 50, 48, 48, 54, 32,
      49, 53, 58, 48, 52, 58, 48, 53, 32, 77, 83, 84>>      \* Mon, 02 Jan 2006 15:04:05 MST

\* parseExpires, for the dates of the requests of this model: Date_RFC1123
\* is the one among them that time.Parse reads in one of the four layouts
parseExpires(dateStr) ==
    IF dateStr = Date_RFC1123
    THEN [err |-> Nil, t |-> [t |-> "Time", year |-> 2006, month |-> 1, day |-> 2,
                              hour |-> 15, min |-> 4, sec |-> 5]]
    ELSE [err |-> Err("invalid syntax"), t |-> Nil]

sameSiteOf(sameSite, old) ==
    IF sameSite = <<115, 116, 114, 105, 99, 116>> THEN <<83, 116, 114, 105, 99, 116>>   \* strict
    ELSE IF sameSite = <<108, 97, 120>> THEN <<76, 97, 120>>                            \* lax
    ELSE IF sameSite = <<110, 111, 110, 101>> THEN <<78, 111, 110, 101>>                \* none
    ELSE old

\* the switch of parseSetCookieHeader for an attribute: two tells that the
\* attribute has an '=', value is the trimmed text after it
withAttribute(cookie, attrName, two, value) ==
    IF attrName = <<100, 111, 109, 97, 105, 110>>                       \* domain
    THEN IF two THEN [cookie EXCEPT !.Domain = value] ELSE cookie
    ELSE IF attrName = <<112, 97, 116, 104>>                            \* path
    THEN IF two THEN [cookie EXCEPT !.Path = value] ELSE cookie
    ELSE IF attrName = <<101, 120, 112, 105, 114, 101, 115>>            \* expires
    THEN IF two /\ parseExpires(value).err = Nil
         THEN [cookie EXCEPT !.Expires = parseExpires(value).t] ELSE cookie
    ELSE IF attrName = <<109, 97, 120, 45, 97, 103, 101>>               \* max-age
    THEN IF two /\ ~Atoi(value).err
         THEN [cookie EXCEPT !.MaxAge = Atoi(value).n] ELSE cookie
    ELSE IF attrName = <<104, 116, 116, 112, 111, 110, 108, 121>>       \* httponly
    THEN [cookie EXCEPT !.HTTPOnly = TRUE]
    ELSE IF attrName = <<115, 101, 99, 117, 114, 101>>                  \* secure
    THEN [cookie EXCEPT !.Secure = TRUE]
    ELSE IF attrName = <<115, 97, 109, 101, 115, 105, 116, 101>>        \* samesite
    THEN IF two THEN [cookie EXCEPT !.SameSite = sameSiteOf(ToLower(value), @)] ELSE cookie
    ELSE cookie

\* attr is the trimmed part; strings.SplitN(attr, "=", 2) is its Cut at '='
attribute(cookie, attr) ==
    withAttribute(cookie, ToLower(TrimSpace(Cut(attr, 61).before)), Cut(attr, 61).found,
                  TrimSpace(Cut(attr, 61).after))

RECURSIVE attributes(_, _, _)
\* the loop of parseSetCookieHeader over parts[i..]
attributes(cookie, parts, i) ==
    IF i > Len(parts) THEN cookie
    ELSE attributes(attribute(cookie, TrimSpace(parts[i])), parts, i + 1)

\* parseSetCookieHeader that takes a first part without '=' as a name
parseSetCookieHeaderBareName(headerValue) ==
    IF TrimSpace(Split(headerValue, 59)[1]) = <<>> THEN Nil
    ELSE attributes(Cookie(TrimSpace(Cut(TrimSpace(Split(headerValue, 59)[1]), 61).before),
                           TrimSpace(Cut(TrimSpace(Split(headerValue, 59)[1]), 61).after)),
                    Split(headerValue, 59), 2)

\* nameValue is the trimmed first part
cookieOf(nameValue, parts) ==
    IF nameValue = <<>> THEN Nil
    ELSE IF ~Cut(nameValue, 61).found THEN Nil
    ELSE attributes(Cookie(TrimSpace(Cut(nameValue, 61).before),
                           TrimSpace(Cut(nameValue, 61).after)), parts, 2)

parseSetCookieHeader(headerValue) ==
    cookieOf(TrimSpace(Split(headerValue, 59)[1]), Split(headerValue, 59))

\* setResponseCookies; c.Cookie adds a Set-Cookie header to the response res
setResponseCookies(req, res) ==
    IF Get(req, H_XSetCookie) = <<>> THEN res
    ELSE IF parseSetCookieHeader(Get(req, H_XSetCookie)) = Nil THEN res
    ELSE [res EXCEPT !.cookies = Append(@, parseSetCookieHeader(Get(req, H_XSetCookie)))]

\* the handler after buildEchoResponse: the cookies are set before the
\* status is read and the view is written
echoHandlerWith(req, snapshot) ==
    IF snapshot.Request.Body = Panic THEN recovered("EchoHandler")
    ELSE setResponseCookies(req, respond(req, getCustomStatusCode(req), snapshot))

EchoHandler(req, names, maxSize) ==
    echoHandlerWith(req, buildEchoResponse(req, names, maxSize))

EchoHandlerHead(req) ==
    handled("EchoHandlerHead", getCustomStatusCode(req),
            IF Contains(Get(req, H_Accept), TextHTML) THEN "text/html" ELSE "application/json",
            Nil, Nil)

Enc_br == <<98, 114>>                              \* br
Enc_gzip == <<103, 122, 105, 112>>                 \* gzip
Enc_deflate == <<100, 101, 102, 108, 97, 116, 101>>   \* deflate

\* RequestHeader.HasAcceptEncoding of fasthttp: the name is in the header,
\* at its start or after a space, and at its end or before a comma
HasAcceptEncoding(req, acceptEncoding) ==
    /\ Index(Get(req, H_AcceptEncoding), acceptEncoding) > 0
    /\ \/ Index(Get(req, H_AcceptEncoding), acceptEncoding) + Len(acceptEncoding)
            > Len(Get(req, H_AcceptEncoding))
       \/ Get(req, H_AcceptEncoding)[Index(Get(req, H_AcceptEncoding), acceptEncoding)
                                      + Len(acceptEncoding)] = 44
    /\ \/ Index(Get(req, H_AcceptEncoding), acceptEncoding) = 1
       \/ Get(req, H_AcceptEncoding)[Index(Get(req, H_AcceptEncoding), acceptEncoding) - 1] = 32

\* the compress middleware, which runs the handlers after it and then
\* encodes the body of the response res; long tells that the body has the
\* length from which on a body is encoded (the views give text and JSON,
\* which are of the content types that are encoded)
compress(req, res, long) ==
    IF res.contentEncoding # <<>> \/ ~long THEN res
    ELSE IF HasAcceptEncoding(req, Enc_br) THEN [res EXCEPT !.contentEncoding = Enc_br]
    ELSE IF HasAcceptEncoding(req, Enc_gzip) THEN [res EXCEPT !.contentEncoding = Enc_gzip]
    ELSE IF HasAcceptEncoding(req, Enc_deflate) THEN [res EXCEPT !.contentEncoding = Enc_deflate]
    ELSE res

(***************************************************************************)
(* Requests                                                                *)
(***************************************************************************)
Methods == {"GET", "POST", "PUT", "PATCH", "DELETE", "OPTIONS", "HEAD"}

\* 0 1 2 5 6 9 + - a
StatusAlphabet == {48, 49, 50, 53, 54, 57, 43, 45, 97}

StatusSamples == {
    <<48, 52, 48, 52>>,                                      \* 0404
    <<43, 52, 48, 52>>,                                      \* +404
    <<45, 52, 48, 52>>,                                      \* -404
    <<48, 48, 48, 48, 48, 48, 48, 48, 48, 48, 48, 48, 48, 48, 48, 48, 48, 48, 48, 48, 52,
      48, 52>>,                                              \* 00000000000000000000404
    <<57, 50, 50, 51, 51, 55, 50, 48, 51, 54, 56, 53, 52, 55, 55, 53, 56, 48, 56>>,
                                                             \* 9223372036854775808
    <<52, 46, 48, 101, 50>>,                                 \* 4.0e2
    <<52, 48, 52, 32, 79, 75>>                               \* 404 OK
}

StatusValues == SeqsUpTo(StatusAlphabet, MaxStatusLen) \cup StatusSamples

Accepts == {
    <<>>,
    TextHTML,
    <<97, 112, 112, 108, 105, 99, 97, 116, 105, 111, 110, 47, 106, 115, 111, 110>>
                                                             \* application/json
}

TruncatedMultipart ==
    <<45, 45, 98, 13, 10, 67, 111, 110, 116, 101, 110, 116, 45, 68, 105, 115, 112, 111,
      115, 105, 116, 105, 111, 110, 58, 32, 102, 111, 114, 109, 45, 100, 97, 116,
      97, 59, 32, 110, 97, 109, 101, 61, 34, 97, 34, 13, 10, 13, 10, 49>>   \* --b\r\nContent-Disposition: form-data; name="a"\r\n\r\n1

EchoBodies == {
    <<>>,
    <<123, 34, 97, 34, 58, 49, 125>>,      \* {"a":1}
    <<123, 34, 97, 34, 58>>,               \* {"a":
    <<0, 255>>,
    TruncatedMultipart
}

EchoTokens == {
    <<>>,
    <<66, 101, 97, 114, 101, 114, 32, 101, 51, 48, 46, 101, 51, 48, 46, 120>>,  \* Bearer e30.e30.x
    <<98, 110, 86, 115, 98, 65, 46, 101, 51, 48, 46>>                           \* bnVsbA.e30.
}

\* the header map with the keys whose value in h is not empty
headersOf(h) ==
    [k \in {k \in DOMAIN h : h[k] # <<>>} |-> h[k]]

\* the address of the peer of the connection
PeerAddress == <<49, 48, 46, 48, 46, 48, 46, 57>>      \* 10.0.0.9

makeRequest(method, status, accept, ct, auth, body) ==
    [method |-> method,
     headers |-> headersOf((normalizeHeaderKey(H_StatusCode) :> status)
                           @@ (H_Accept :> accept) @@ (H_ContentType :> ct)
                           @@ (H_Authorization :> auth)),
     peer |-> PeerAddress,
     body |-> body]

\* no header of that name in the request; a header can be there with the
\* empty value
NoHeader == <<-1>>

\* the header map of the names in h whose value is not NoHeader
presentHeaders(h) == [k \in {k \in DOMAIN h : h[k] # NoHeader} |-> h[k]]

\* a GET request with these headers and no body
requestWith(h) ==
    [method |-> "GET", headers |-> presentHeaders(h), peer |-> PeerAddress, body |-> <<>>]

\* 1 , and space
ListAlphabet == {49, 44, 32}

\* the values of a list header: a header value has no space at either end
ListValues ==
    {v \in SeqsUpTo(ListAlphabet, MaxListLen) : TrimSpace(v) = v}
    \cup {<<49, 46, 49, 46, 49, 46, 49, 32, 44, 50, 46, 50, 46, 50, 46, 50>>}  \* 1.1.1.1 ,2.2.2.2

RealIPValues == {NoHeader, <<>>, <<49, 48, 46, 48, 46, 48, 46, 50>>}           \* 10.0.0.2

\* a , ; and space
EncodingAlphabet == {97, 44, 59, 32}

AcceptEncodings ==
    {v \in SeqsUpTo(EncodingAlphabet, MaxEncodingLen) : TrimSpace(v) = v}
    \cup {NoHeader, Enc_br, Enc_gzip, Enc_deflate,
          <<103, 122, 105, 112, 44, 32, 100, 101, 102, 108, 97, 116, 101>>,    \* gzip, deflate
          <<103, 122, 105, 112, 59, 113, 61, 48, 46, 53>>,                     \* gzip;q=0.5
          <<120, 45, 103, 122, 105, 112>>,                                     \* x-gzip
          <<100, 101, 102, 108, 97, 116, 101, 44, 32, 98, 114>>,               \* deflate, br
          <<59, 113, 61, 49>>}                                                 \* ;q=1

EncodingRequests ==
    {requestWith((H_AcceptEncoding :> ae) @@ (H_Accept :> accept)) :
        ae \in AcceptEncodings, accept \in {NoHeader, TextHTML}}

\* a = ; and space
CookieAlphabet == {97, 61, 59, 32}

SetCookieValues ==
    {v \in SeqsUpTo(CookieAlphabet, MaxCookieLen) : TrimSpace(v) = v}
    \cup {NoHeader,
          <<97, 61, 98, 59, 32, 80, 97, 116, 104, 61, 47, 59, 32, 72, 116, 116, 112, 79,
            110, 108, 121, 59, 32, 83, 101, 99, 117, 114, 101, 59, 32, 83, 97, 109, 101,
            83, 105, 116, 101, 61, 76, 97, 120, 59, 32, 77, 97, 120, 45, 65, 103, 101, 61,
            49, 48, 59, 32, 68, 111, 109, 97, 105, 110, 61, 120>>,
              \* a=b; Path=/; HttpOnly; Secure; SameSite=Lax; Max-Age=10; Domain=x
          <<97, 59, 32, 80, 97, 116, 104, 61, 47>>,                    \* a; Path=/
          <<97, 61, 98, 59, 32, 77, 97, 120, 45, 65, 103, 101, 61, 120, 59, 32, 83, 97,
            109, 101, 83, 105, 116, 101, 61, 79, 116, 104, 101, 114>>,
              \* a=b; Max-Age=x; SameSite=Other
          <<97, 61, 98, 59, 32, 69, 120, 112, 105, 114, 101, 115, 61>> \o Date_RFC1123,
              \* a=b; Expires=Mon, 02 Jan 2006 15:04:05 MST
          <<97, 61, 98, 61, 99>>}                                      \* a=b=c

CookieRequests ==
    {requestWith((normalizeHeaderKey(H_XSetCookie) :> v)
                 @@ (normalizeHeaderKey(H_StatusCode) :> status)) :
        v \in SetCookieValues, status \in {NoHeader, <<52, 48, 52>>}}      \* 404

ProxyRequests ==
    {requestWith((normalizeHeaderKey(H_XForwardedFor) :> xff)
                 @@ (normalizeHeaderKey(H_XRealIP) :> xri)) :
        xff \in ListValues \cup {NoHeader}, xri \in RealIPValues}

Requests ==
    {makeRequest(m, st, acc, <<>>, <<>>, <<>>) :
        m \in {"GET", "HEAD"}, st \in StatusValues, acc \in {<<>>, TextHTML}}
    \cup
    {makeRequest(in[1], in[2], in[3], in[4], in[5], in[6]) :
        in \in Methods \X {<<>>, <<53, 57, 57>>, <<54, 48, 48>>} \X Accepts
               \X {CT_Empty, CT_Json, CT_MultipartB} \X EchoTokens \X EchoBodies}
    \cup ProxyRequests \cup EncodingRequests \cup CookieRequests

(***************************************************************************)
(* Specification of the handlers: a request from Requests is handled once, *)
(* by EchoHandler or, a HEAD request, by EchoHandlerHead.                  *)
(***************************************************************************)
InitEcho ==
    /\ request \in Requests
    /\ response = Nil
    /\ echoPc = "call"
    /\ maxBodySize \in {MaxCap, DefaultMaxBodySize}
    /\ headerNames = NewJWTService(<<>>)
    /\ bodyBytes = <<>> /\ contentType = <<>> /\ bodyInfo = Nil /\ bodyPc = "idle"
    /\ headers = <<>> /\ jwtInfoMap = Nil /\ jwtPc = "idle"
    /\ TlsIdle /\ MainIdle /\ ReadyIdle

EchoHandlerCall ==
    /\ echoPc = "call"
    /\ \E long \in BOOLEAN :
          response' = compress(request, EchoHandler(request, headerNames, maxBodySize), long)
    /\ echoPc' = "done"
    /\ UNCHANGED request
    /\ UNCHANGED <<bodyVars, jwtVars, tlsVars, mainVars, readyVars>>

EchoHandlerHeadCall ==
    /\ echoPc = "call"
    /\ request.method = "HEAD"
    \* SendStatus gives the response the status text as its body
    /\ response' = compress(request, EchoHandlerHead(request), FALSE)
    /\ echoPc' = "done"
    /\ UNCHANGED request
    /\ UNCHANGED <<bodyVars, jwtVars, tlsVars, mainVars, readyVars>>

NextEcho == EchoHandlerCall \/ EchoHandlerHeadCall

SpecEcho == InitEcho /\ [][NextEcho]_vars

(***************************************************************************)
(* Properties of the handlers, checked under SpecEcho                      *)
(***************************************************************************)
Handled == echoPc = "done"

\* the value of the x-set-response-status-code header, "" when absent
StatusHeader == mapGet(request.headers, normalizeHeaderKey(H_StatusCode))

Unsigned(v) == IF Len(v) > 0 /\ v[1] = 43 THEN Tail(v) ELSE v

\* the significant digits of the numeral v (an optional '+', then digits
\* only), << >> when v is no such numeral
Significant(v) ==
    IF Len(Unsigned(v)) > 0 /\ allDigits(Unsigned(v)) THEN stripZeros(Unsigned(v)) ELSE <<>>

\* the number v stands for when that has three digits, 0 otherwise
ThreeDigitNumber(v) ==
    IF Len(Significant(v)) = 3
    THEN 100 * (Significant(v)[1] - 48) + 10 * (Significant(v)[2] - 48) + (Significant(v)[3] - 48)
    ELSE 0

\* C19: the status of the response of either handler is the number n of the
\* x-set-response-status-code header when that is a numeral of n and
\* 200 <= n <= 599, and 200 for every other value and without the header;
\* the handler returns no error
C19_StatusOverride ==
    Handled =>
        /\ response.err = Nil
        /\ response.status =
              IF ThreeDigitNumber(StatusHeader) >= 200 /\ ThreeDigitNumber(StatusHeader) <= 599
              THEN ThreeDigitNumber(StatusHeader)
              ELSE 200

C19_Witness ==
    /\ Handled
    /\ response.handler = "EchoHandlerHead"
    /\ StatusHeader = <<53, 57, 57>>       \* 599
    /\ response.status = 599

\* C20: whatever the request, EchoHandler has a snapshot: buildEchoResponse
\* did not panic, the body descriptor is absent or a BodyInfo, and the
\* tokens are absent or a map
C20_SnapshotAlwaysBuilt ==
    (Handled /\ response.handler = "EchoHandler") =>
        /\ response.snapshot # Nil
        /\ response.snapshot.Request.Body.t \in {"nil", "BodyInfo"}
        /\ response.snapshot.JwtTokens.t \in {"nil", "map"}

C20_Witness ==
    /\ Handled /\ response.handler = "EchoHandler"
    /\ request.method = "POST"
    /\ request.body = TruncatedMultipart
    /\ Get(request, H_ContentType) = CT_MultipartB
    /\ Get(request, H_Authorization) = <<98, 110, 86, 115, 98, 65, 46, 101, 51, 48, 46>>
    /\ response.snapshot # Nil
    /\ response.snapshot.Request.Body.t = "BodyInfo"

\* EchoHandler answered with a snapshot
Snapshot == Handled /\ response.handler = "EchoHandler" /\ response.snapshot # Nil

HasHeader(name) == normalizeHeaderKey(name) \in DOMAIN request.headers
HeaderValue(name) == request.headers[normalizeHeaderKey(name)]

\* the part of v before its first comma, without the space around it
FirstEntry(v) ==
    TrimSpace(IF IndexByte(v, 44) = 0 THEN v ELSE SubSeq(v, 1, IndexByte(v, 44) - 1))

\* C21 as stated: the remote address is the first entry of X-Forwarded-For
\* when the request has that header, else the value of X-Real-IP when the
\* request has that header, else the address of the peer
C21_Original ==
    Snapshot =>
        response.snapshot.Request.RemoteAddress =
            IF HasHeader(H_XForwardedFor) THEN FirstEntry(HeaderValue(H_XForwardedFor))
            ELSE IF HasHeader(H_XRealIP) THEN HeaderValue(H_XRealIP)
            ELSE request.peer

\* C21: the remote address is the first entry of X-Forwarded-For, without
\* the space around it, when the request has that header with a value that
\* is not empty, else the value of X-Real-IP when the request has that
\* header with a value that is not empty, else the address of the peer
C21_RemoteAddressPrecedence ==
    Snapshot =>
        response.snapshot.Request.RemoteAddress =
            IF HasHeader(H_XForwardedFor) /\ HeaderValue(H_XForwardedFor) # <<>>
            THEN FirstEntry(HeaderValue(H_XForwardedFor))
            ELSE IF HasHeader(H_XRealIP) /\ HeaderValue(H_XRealIP) # <<>>
            THEN HeaderValue(H_XRealIP)
            ELSE request.peer

C21_Witness ==
    /\ Snapshot
    /\ HasHeader(H_XForwardedFor) /\ IndexByte(HeaderValue(H_XForwardedFor), 44) > 2
    /\ HasHeader(H_XRealIP) /\ HeaderValue(H_XRealIP) # <<>>
    /\ response.snapshot.Request.RemoteAddress = <<49, 46, 49, 46, 49, 46, 49>>   \* 1.1.1.1

\* C22: the responseEncoding of the snapshot is the content encoding of the
\* response that carries it, empty when the response is not encoded
C22_ResponseEncodingIsApplied ==
    Snapshot => response.snapshot.Request.Compression.ResponseEncoding = response.contentEncoding

\* the value of the Accept-Encoding header, "" when absent
AcceptEncodingHeader == mapGet(request.headers, H_AcceptEncoding)

\* v names an encoding: one of its parts between commas has, before the
\* first semicolon of the part, a byte that is not white space
NamesEncoding(v) ==
    \E i \in 1..Len(v) :
        /\ v[i] \notin {44, 59} /\ ~isSpace(v[i])
        /\ \A j \in 1..(i - 1) : v[j] = 59 => \E k \in (j + 1)..(i - 1) : v[k] = 44

\* C23: supported is true exactly when the Accept-Encoding header names an
\* encoding, its parameters after a semicolon and its empty entries not
\* counted, and the list of the snapshot is then not empty
C23_SupportedIffEncodingNamed ==
    Snapshot =>
        /\ response.snapshot.Request.Compression.Supported = NamesEncoding(AcceptEncodingHeader)
        /\ response.snapshot.Request.Compression.Supported
               = (Len(response.snapshot.Request.Compression.AcceptedEncodings) > 0)

C23_Witness ==
    /\ Snapshot
    /\ Len(AcceptEncodingHeader) > 0
    /\ ~response.snapshot.Request.Compression.Supported
    /\ response.contentEncoding = <<>>

\* the value of the x-set-cookie header, "" when absent
SetCookieHeader == mapGet(request.headers, normalizeHeaderKey(H_XSetCookie))

\* the first segment of v, the text before its first semicolon, has
\* no '='
FirstSegmentWithoutEquals(v) ==
    \A i \in 1..Len(v) : v[i] = 61 => \E j \in 1..(i - 1) : v[j] = 59

\* the request without its x-set-cookie header
WithoutSetCookie ==
    [request EXCEPT !.headers =
        [k \in DOMAIN request.headers \ {normalizeHeaderKey(H_XSetCookie)} |-> request.headers[k]]]

C27_BodyForFourMethods ==
    Snapshot =>
        (response.snapshot.Request.Body # Nil
            <=> (request.method \in {"POST", "PUT", "PATCH", "DELETE"} /\ Len(request.body) > 0))

C27_Witness ==
    /\ Snapshot
    /\ request.method = "GET" /\ Len(request.body) > 0
    /\ response.snapshot.Request.Body = Nil

(***************************************************************************)
(* The readiness probe of main (src/main.go).  An int64 is the sequence of *)
(* its eight bytes in two's complement, the low byte first.                *)
(***************************************************************************)
MaxSeconds == 2

\* the int64 of n, for 0 <= n < 2^31
int64(n) == [i \in 1..8 |-> IF i <= 4 THEN (n \div (256 ^ (i - 1))) % 256 ELSE 0]

RECURSIVE addBytes(_, _, _, _)
addBytes(a, b, i, carry) ==
    IF i > 8 THEN <<>>
    ELSE <<(a[i] + b[i] + carry) % 256>> \o addBytes(a, b, i + 1, (a[i] + b[i] + carry) \div 256)

\* a + b of int64, which wraps around
addInt64(a, b) == addBytes(a, b, 1, 0)

RECURSIVE column(_, _, _, _)
\* the sum of the products a[i] * b[j] that go to byte k
column(a, b, k, i) == IF i > k THEN 0 ELSE a[i] * b[k - i + 1] + column(a, b, k, i + 1)

RECURSIVE mulBytes(_, _, _, _)
mulByte(a, b, k, sum) == <<sum % 256>> \o mulBytes(a, b, k + 1, sum \div 256)
mulBytes(a, b, k, carry) ==
    IF k > 8 THEN <<>> ELSE mulByte(a, b, k, column(a, b, k, 1) + carry)

\* a * b of int64, which wraps around
mulInt64(a, b) == mulBytes(a, b, 1, 0)

\* -a of int64
negInt64(a) == addInt64([i \in 1..8 |-> 255 - a[i]], int64(1))

isNegative(a) == a[8] >= 128

ltBytes(a, b) == \E i \in 1..8 : a[i] < b[i] /\ \A j \in (i + 1)..8 : a[j] = b[j]

\* a >= b of int64
geInt64(a, b) ==
    IF isNegative(a) # isNegative(b) THEN isNegative(b) ELSE ~ltBytes(a, b)

RECURSIVE decimal(_, _, _)
\* the number of the digits s[i..] after the number acc of the digits before
decimal(s, i, acc) ==
    IF i > Len(s) THEN acc
    ELSE decimal(s, i + 1, addInt64(mulInt64(acc, int64(10)), int64(s[i] - 48)))

\* the int that strconv.Atoi returns for s when it returns no error
atoiInt64(s) ==
    IF s[1] = 45 THEN negInt64(decimal(Tail(s), 1, int64(0)))
    ELSE IF s[1] = 43 THEN decimal(Tail(s), 1, int64(0))
    ELSE decimal(s, 1, int64(0))

\* the delaySeconds of main for the value env of the variable
delaySecondsOf(env) ==
    IF env = <<>> THEN int64(0)
    ELSE IF Atoi(env).err THEN int64(0)
    ELSE atoiInt64(env)

\* time.Second
Second == int64(1000000000)

\* time.Since(startTime) at the time up
Since(up) == addInt64(mulInt64(int64(up.sec), Second), int64(up.nsec))

\* the ReadinessProbe of main
ReadinessProbe(delay, up) ==
    IF geInt64(delay, int64(1))
    THEN geInt64(Since(up), mulInt64(delay, Second))
    ELSE TRUE

\* values of HEALTH_READINESS_DELAY_SECONDS
DelayEnvs == {
    <<>>,
    <<48>>,                                           \* 0
    <<49>>,                                           \* 1
    <<50>>,                                           \* 2
    <<43, 50>>,                                       \* +2
    <<45, 49>>,                                       \* -1
    <<49, 115>>,                                      \* 1s
    <<57, 50, 50, 51, 51, 55, 50, 48, 51, 54>>,       \* 9223372036
    <<57, 50, 50, 51, 51, 55, 50, 48, 51, 55>>,       \* 9223372037
    <<49, 56, 52, 52, 54, 55, 52, 52, 48, 55, 52>>,   \* 18446744074
    <<57, 50, 50, 51, 51, 55, 50, 48, 51, 54, 56, 53, 52, 55, 55, 53, 56, 48, 56>>
                                                      \* 9223372036854775808
}

\* the times at which the clock is looked at: the full seconds and the
\* nanosecond before each
Instants == {[sec |-> k, nsec |-> n] : k \in 0..MaxSeconds, n \in {0, 999999999}}

Later(a, b) == b.sec > a.sec \/ (b.sec = a.sec /\ b.nsec > a.nsec)

InitReady ==
    /\ delayEnv \in DelayEnvs
    /\ delaySeconds = delaySecondsOf(delayEnv)
    /\ uptime = [sec |-> 0, nsec |-> 0]
    /\ readiness = Nil
    /\ BodyIdle /\ JwtIdle /\ TlsIdle /\ MainIdle /\ EchoIdle

\* time passes: the clock of time.Since does not go back
Tick ==
    /\ \E t \in Instants : Later(uptime, t) /\ uptime' = t
    /\ UNCHANGED <<delayEnv, delaySeconds, readiness>>
    /\ UNCHANGED <<bodyVars, jwtVars, tlsVars, mainVars, echoVars>>

\* GET /healthz/ready
ReadinessProbeCall ==
    /\ readiness' = [t |-> "probe", at |-> uptime, ready |-> ReadinessProbe(delaySeconds, uptime)]
    /\ UNCHANGED <<delayEnv, delaySeconds, uptime>>
    /\ UNCHANGED <<bodyVars, jwtVars, tlsVars, mainVars, echoVars>>

NextReady == Tick \/ ReadinessProbeCall

SpecReady == InitReady /\ [][NextReady]_vars

(***************************************************************************)
(* Properties of the readiness probe, checked under SpecReady              *)
(***************************************************************************)
\* the variable is set to a decimal number above 0
DelaySet == delayEnv # <<>> /\ ~Atoi(delayEnv).err /\ Atoi(delayEnv).n > 0

\* C28: with the delay set to d seconds, d above 0, the probe answers ready
\* exactly when the process has been up for d seconds or more
C28_ReadyIffDelayElapsed ==
    (readiness # Nil /\ DelaySet) =>
        (readiness.ready <=> readiness.at.sec >= Atoi(delayEnv).n)

\* a probe that answered ready is not followed by one that answers not ready
C28_ReadyStays ==
    [][(readiness # Nil /\ readiness.ready) => readiness'.ready]_vars

====
